---- MODULE Spec2Model ----
(***************************************************************************)
(* Request validation and tensor-shape normalization of the FAIM MCP       *)
(* server (src/utils/validation.ts), modelled over an explicit encoding of *)
(* JavaScript values.                                                      *)
(*                                                                         *)
(* A JavaScript value is a record [t, v]: t is the value's kind and v its  *)
(* payload.  A number is the pair <<n, d>> standing for n/d; d = 0 encodes *)
(* the non-finite numbers (NaN = 0/0, Infinity = 1/0, -Infinity = -1/0).   *)
(* A string is its sequence of characters, an array its sequence of        *)
(* elements (TLA+ sequences are 1-based: JavaScript index i is i + 1).     *)
(***************************************************************************)
EXTENDS Integers, Sequences, FiniteSets, TLC

VARIABLES
    npc,        \* normalizer harness: "ready" | "normalized" | "renormalized"
    nInput,     \* the array handed to normalizeInput
    nModel,     \* its model argument
    nFlag,      \* its isMultivariate argument
    nOut,       \* what normalizeInput returned (or Thrown)
    nOut2,      \* what normalizeInput returned when applied to nOut
    vpc,        \* validator harness: "ready" | "validated"
    request,    \* the raw request handed to validateForecastRequest
    vResult,    \* what validateForecastRequest returned
    fpc,        \* forecast: "ready" | "awaiting" | "done"
    fRequest,   \* the request handed to forecast
    clientInstance,       \* client.ts: the singleton FaimClient, or null
    initializationError,  \* client.ts: the error of a failed initialization, or null
    fCalls,     \* the operations of the client forecast has called, in order
    fAwaited,   \* the call forecast is awaiting
    fResult,    \* what forecast returned (or Thrown when its promise rejects)
    epc,        \* classifier harness: "ready" | "classified"
    eError,     \* the value handed to transformError, isRetryableError, isAuthError
    eContext,   \* the context handed to transformError
    eResponse,  \* what transformError returned
    eRetryable, \* what isRetryableError returned
    eAuth,      \* what isAuthError returned
    spc,        \* shape harness: "ready" | "measured"
    sArray,     \* the value handed to getArrayShape
    sShape,     \* what getArrayShape returned
    initializationAttempted,  \* client.ts: whether initializeClient has run since the reset
    apiKey,     \* process.env.FAIM_API_KEY
    constructed,  \* how many FaimClient objects have been constructed
    cLog        \* the calls made to client.ts, in order, each with its outcome

nvars == <<npc, nInput, nModel, nFlag, nOut, nOut2>>
vvars == <<vpc, request, vResult>>
fvars == <<fpc, fRequest, clientInstance, initializationError, fCalls, fAwaited, fResult>>
evars == <<epc, eError, eContext, eResponse, eRetryable, eAuth>>
svars == <<spc, sArray, sShape>>
cvars == <<initializationAttempted, apiKey, constructed, cLog>>
vars == <<npc, nInput, nModel, nFlag, nOut, nOut2, vpc, request, vResult,
          fpc, fRequest, clientInstance, initializationError, fCalls, fAwaited, fResult,
          epc, eError, eContext, eResponse, eRetryable, eAuth, spc, sArray, sShape,
          initializationAttempted, apiKey, constructed, cLog>>

----------------------------------------------------------------------------
(* Bounds of the explored inputs *)

\* the longest row, and the most rows, of the matrices explored
MaxCols == 2
MaxRows == 2
\* the longest array, at each level, of the nested arrays explored
MaxNest == 1

----------------------------------------------------------------------------
(* JavaScript values *)

Undefined == [t |-> "undefined", v |-> <<>>]
Null == [t |-> "null", v |-> <<>>]
Num(n, d) == [t |-> "number", v |-> <<n, d>>]
Int1(n) == Num(n, 1)
NaN == Num(0, 0)
Infinity == Num(1, 0)
Str(chars) == [t |-> "string", v |-> chars]
Bool(b) == [t |-> "boolean", v |-> <<b>>]
Arr(elems) == [t |-> "array", v |-> elems]
Obj(fields) == [t |-> "object", v |-> fields]

\* the value a thrown Error is represented by
Thrown(msg) == [t |-> "throw", v |-> <<msg>>]

Chronos2 == Str(<<"c", "h", "r", "o", "n", "o", "s", "2">>)
TiRex == Str(<<"t", "i", "r", "e", "x">>)

\* typeof v === 'number'
IsNumber(v) == v.t = "number"

\* Number.isFinite(v)
IsFinite(v) == v.t = "number" /\ v.v[2] # 0

\* Array.isArray(v)
IsArray(v) == v.t = "array"

\* the truthiness of v, as `!v` and `a && b` read it
Truthy(v) ==
    CASE v.t = "undefined" -> FALSE
      [] v.t = "null" -> FALSE
      [] v.t = "boolean" -> v.v[1]
      [] v.t = "number" -> v.v[1] # 0
      [] v.t = "string" -> Len(v.v) > 0
      [] OTHER -> TRUE

\* a[i] for a JavaScript index i (0-based); undefined out of range or when
\* a has no such property
At(a, i) ==
    IF a.t = "array" /\ i + 1 <= Len(a.v) THEN a.v[i + 1] ELSE Undefined

\* a default parameter value: `p = d` takes d when the argument is undefined
DefaultParam(arg, d) == IF arg = Undefined THEN d ELSE arg

\* the concatenation of a sequence of sequences
RECURSIVE ConcatAll(_)
ConcatAll(ss) == IF ss = <<>> THEN <<>> ELSE Head(ss) \o ConcatAll(Tail(ss))

\* Array.prototype.flat() with depth 1: array elements are spliced in, any
\* other element is kept
Flat(a) ==
    Arr(ConcatAll([i \in 1..Len(a.v) |->
                      IF IsArray(a.v[i]) THEN a.v[i].v ELSE <<a.v[i]>>]))

\* a map that leaves each scalar unwrapped
WrapEach_Unwrapped(a) == a

\* arr.map((val) => [val])
WrapEach(a) == Arr([i \in 1..Len(a.v) |-> Arr(<<a.v[i]>>)])

----------------------------------------------------------------------------
(* normalizeInput *)

\* the TypeError of a property read on null or undefined
ThrownTypeError(message) == [t |-> "throw", v |-> <<message>>, name |-> "TypeError"]

Length == <<"l", "e", "n", "g", "t", "h">>

\* "Cannot read properties of undefined (reading 'length')"
CannotReadProperties(v, property) ==
    <<"C", "a", "n", "n", "o", "t", " ", "r", "e", "a", "d", " ", "p", "r", "o", "p", "e", "r",
      "t", "i", "e", "s", " ", "o", "f", " ">>
    \o (IF v = Null THEN <<"n", "u", "l", "l">>
        ELSE <<"u", "n", "d", "e", "f", "i", "n", "e", "d">>)
    \o <<" ", "(", "r", "e", "a", "d", "i", "n", "g", " ", "'">> \o property \o <<"'", ")">>

EmptyInputMessage ==
    <<"T", "i", "m", "e", " ", "s", "e", "r", "i", "e", "s", " ", "d", "a", "t", "a", " ", "c",
      "a", "n", "n", "o", "t", " ", "b", "e", " ", "e", "m", "p", "t", "y", ".", " ", "P", "r",
      "o", "v", "i", "d", "e", " ", "a", "t", " ", "l", "e", "a", "s", "t", " ", "o", "n", "e",
      " ", "v", "a", "l", "u", "e", ".">>

\* normalizeInput with the multivariate reading decided by the flag alone
normalizeInput_FlagOnly(input, modelArg, isMultivariateArg) ==
    LET isMultivariate == DefaultParam(isMultivariateArg, Bool(FALSE))
    IN  IF Len(input.v) = 0 THEN Thrown(EmptyInputMessage)
        ELSE IF IsArray(At(input, 0)) /\ IsArray(At(At(input, 0), 0)) THEN input
        ELSE IF IsNumber(At(input, 0)) THEN Arr(<<WrapEach(input)>>)
        ELSE IF IsArray(At(input, 0)) THEN
            IF Truthy(isMultivariate)
            THEN Arr(<<input>>)
            ELSE Arr(<<WrapEach(Flat(input))>>)
        ELSE Arr(<<input>>)

\* normalizeInput without the multivariate reading: 2D input always flattened
normalizeInput_AlwaysFlatten(input, modelArg, isMultivariateArg) ==
    IF Len(input.v) = 0 THEN Thrown(EmptyInputMessage)
    ELSE IF IsArray(At(input, 0)) /\ IsArray(At(At(input, 0), 0)) THEN input
    ELSE IF IsNumber(At(input, 0)) THEN Arr(<<WrapEach(input)>>)
    ELSE IF IsArray(At(input, 0)) THEN Arr(<<WrapEach(Flat(input))>>)
    ELSE Arr(<<input>>)

\* normalizeInput without the 3D pass-through
normalizeInput_No3DCheck(input, modelArg, isMultivariateArg) ==
    LET model == DefaultParam(modelArg, Chronos2)
        isMultivariate == DefaultParam(isMultivariateArg, Bool(FALSE))
    IN  IF Len(input.v) = 0 THEN Thrown(EmptyInputMessage)
        ELSE IF IsNumber(At(input, 0)) THEN Arr(<<WrapEach(input)>>)
        ELSE IF IsArray(At(input, 0)) THEN
            IF model = Chronos2 /\ Truthy(isMultivariate)
            THEN Arr(<<input>>)
            ELSE Arr(<<WrapEach(Flat(input))>>)
        ELSE Arr(<<input>>)

\* normalizeInput whose 3D pass-through is skipped under the multivariate flag
normalizeInput_3DUnlessFlag(input, modelArg, isMultivariateArg) ==
    LET model == DefaultParam(modelArg, Chronos2)
        isMultivariate == DefaultParam(isMultivariateArg, Bool(FALSE))
    IN  IF Len(input.v) = 0 THEN Thrown(EmptyInputMessage)
        ELSE IF IsArray(At(input, 0)) /\ IsArray(At(At(input, 0), 0))
                /\ ~Truthy(isMultivariate) THEN input
        ELSE IF IsNumber(At(input, 0)) THEN Arr(<<WrapEach(input)>>)
        ELSE IF IsArray(At(input, 0)) THEN
            IF model = Chronos2 /\ Truthy(isMultivariate)
            THEN Arr(<<input>>)
            ELSE Arr(<<WrapEach(Flat(input))>>)
        ELSE Arr(<<input>>)

\* normalizeInput with the flattened 2D input returned without its batch
\* axis
normalizeInput_NoBatchAxis(input, modelArg, isMultivariateArg) ==
    LET model == DefaultParam(modelArg, Chronos2)
        isMultivariate == DefaultParam(isMultivariateArg, Bool(FALSE))
    IN  IF Len(input.v) = 0 THEN Thrown(EmptyInputMessage)
        ELSE IF IsArray(At(input, 0)) /\ IsArray(At(At(input, 0), 0)) THEN input
        ELSE IF IsNumber(At(input, 0)) THEN Arr(<<WrapEach(input)>>)
        ELSE IF IsArray(At(input, 0)) THEN
            IF model = Chronos2 /\ Truthy(isMultivariate)
            THEN Arr(<<input>>)
            ELSE WrapEach(Flat(input))
        ELSE Arr(<<input>>)

normalizeInput(input, modelArg, isMultivariateArg) ==
    LET model == DefaultParam(modelArg, Chronos2)
        isMultivariate == DefaultParam(isMultivariateArg, Bool(FALSE))
    IN  IF input \in {Undefined, Null} THEN ThrownTypeError(CannotReadProperties(input, Length))
        ELSE IF input.t \in {"array", "string"} /\ Len(input.v) = 0
        THEN Thrown(EmptyInputMessage)
        ELSE IF IsArray(At(input, 0)) /\ IsArray(At(At(input, 0), 0)) THEN input
        ELSE IF IsNumber(At(input, 0)) THEN Arr(<<WrapEach(input)>>)
        ELSE IF IsArray(At(input, 0)) THEN
            IF model = Chronos2 /\ Truthy(isMultivariate)
            THEN Arr(<<input>>)
            ELSE Arr(<<WrapEach(Flat(input))>>)
        ELSE Arr(<<input>>)

\* getArrayShape recording the length of an empty array too
RECURSIVE getArrayShape_CountsEmpty(_)
getArrayShape_CountsEmpty(current) ==
    IF IsArray(current)
    THEN <<Len(current.v)>>
         \o (IF Len(current.v) > 0 THEN getArrayShape_CountsEmpty(current.v[1]) ELSE <<>>)
    ELSE <<>>

\* getArrayShape: the lengths met descending through first elements
RECURSIVE getArrayShape(_)
getArrayShape(current) ==
    IF IsArray(current) /\ Len(current.v) > 0
    THEN <<Len(current.v)>> \o getArrayShape(current.v[1])
    ELSE <<>>

----------------------------------------------------------------------------
(* JSON.parse, on strings made of brackets, commas and decimal digits.  Any
   other character is an unexpected token, as it is for JSON.parse when the
   string holds no white space, sign, fraction, exponent, quote, brace or
   literal name. *)

Digits == <<"0", "1", "2", "3", "4", "5", "6", "7", "8", "9">>
IsDigit(c) == \E k \in 1..10 : Digits[k] = c
DigitValue(c) == (CHOOSE k \in 1..10 : Digits[k] = c) - 1

ParseOk(value, rest) == [ok |-> TRUE, value |-> value, rest |-> rest]
ParseFail(rest) == [ok |-> FALSE, value |-> Undefined, rest |-> rest]

\* the digits that continue a number whose value so far is acc
RECURSIVE ParseDigits(_, _)
ParseDigits(acc, s) ==
    IF s # <<>> /\ IsDigit(Head(s))
    THEN ParseDigits(acc * 10 + DigitValue(Head(s)), Tail(s))
    ELSE ParseOk(Int1(acc), s)

RECURSIVE ParseValue(_)
RECURSIVE ParseElements(_, _)

\* one JSON value at the head of s
ParseValue(s) ==
    IF s = <<>> THEN ParseFail(s)
    ELSE IF Head(s) = "[" THEN
        IF Tail(s) # <<>> /\ Head(Tail(s)) = "]"
        THEN ParseOk(Arr(<<>>), Tail(Tail(s)))
        ELSE ParseElements(<<>>, Tail(s))
    ELSE IF Head(s) = "0" THEN ParseOk(Int1(0), Tail(s))
    ELSE IF IsDigit(Head(s)) THEN ParseDigits(DigitValue(Head(s)), Tail(s))
    ELSE ParseFail(s)

\* the elements of an array after its opening bracket or after a comma
ParseElements(done, s) ==
    LET e == ParseValue(s)
    IN  IF ~e.ok THEN e
        ELSE IF e.rest = <<>> THEN ParseFail(e.rest)
        ELSE IF Head(e.rest) = "," THEN ParseElements(Append(done, e.value), Tail(e.rest))
        ELSE IF Head(e.rest) = "]" THEN ParseOk(Arr(Append(done, e.value)), Tail(e.rest))
        ELSE ParseFail(e.rest)

\* the SyntaxError JSON.parse throws when it stops before `rest`
SyntaxError(text, rest) ==
    IF rest = <<>>
    THEN Thrown([text |-> "Unexpected end of JSON input", position |-> Len(text)])
    ELSE Thrown([text |-> "Unexpected token", position |-> Len(text) - Len(rest)])

\* JSON.parse(text): the value, or the SyntaxError thrown
JSONParse(text) ==
    LET p == ParseValue(text)
    IN  IF ~p.ok THEN SyntaxError(text, p.rest)
        ELSE IF p.rest # <<>> THEN SyntaxError(text, p.rest)
        ELSE p.value

----------------------------------------------------------------------------
(* validateForecastRequest *)

\* the maximum horizon the validator admits
MaxHorizon == 1024

\* typeof v
Typeof(v) ==
    CASE v.t \in {"array", "null", "object"} -> "object"
      [] OTHER -> v.t

\* typeof v as the string value a template literal interpolates
TypeofStr(v) ==
    CASE Typeof(v) = "object" -> Str(<<"o", "b", "j", "e", "c", "t">>)
      [] Typeof(v) = "number" -> Str(<<"n", "u", "m", "b", "e", "r">>)
      [] Typeof(v) = "string" -> Str(<<"s", "t", "r", "i", "n", "g">>)
      [] Typeof(v) = "boolean" -> Str(<<"b", "o", "o", "l", "e", "a", "n">>)
      [] OTHER -> Str(<<"u", "n", "d", "e", "f", "i", "n", "e", "d">>)

\* req.name: the property of an object, undefined when it has none
Field(req, name) ==
    IF req.t = "object" /\ name \in DOMAIN req.v THEN req.v[name] ELSE Undefined

\* numeric comparisons of a finite number n/d (d > 0) with an integer k
NumLessEq(a, k) == a.v[1] <= k * a.v[2]
NumLess(a, k) == a.v[1] < k * a.v[2]
NumGreater(a, k) == a.v[1] > k * a.v[2]

NoDetails == [prefix |-> "", arg |-> Undefined]
Got(v) == [prefix |-> "Got: ", arg |-> v]
NoIndex == <<>>

\* the error of validateArrayInput: { error_code, message, details }; the
\* message is its text and the indices interpolated into it
ArrayError(code, text, index, details) ==
    Obj([error_code |-> code, message |-> [text |-> text, index |-> index],
         details |-> details])

\* the ErrorResponse of validateForecastRequest
ErrorResponse(code, text, index, field, details) ==
    Obj([error_code |-> code, message |-> [text |-> text, index |-> index],
         field |-> field, details |-> details])

\* the first entry of errors (the result of each iteration's checks, in
\* order) that is not null: a loop that returns at its first failure
FirstFailure(errors) ==
    LET failing == {i \in DOMAIN errors : errors[i] # Null}
    IN  IF failing = {} THEN Null
        ELSE errors[CHOOSE i \in failing : \A k \in failing : i <= k]

\* the checks of one row x[i] of a 2D or 3D array (i, j, k are 1-based here,
\* the indices reported are JavaScript's)
validateRow(row, i) ==
    IF ~IsArray(row)
    THEN ArrayError("INVALID_PARAMETER", "x[i] must be an array", <<i - 1>>,
                    Got(TypeofStr(row)))
    ELSE IF Len(row.v) = 0
    THEN ArrayError("INVALID_VALUE_RANGE", "x[i] cannot be an empty array", <<i - 1>>,
                    NoDetails)
    ELSE IF IsNumber(At(row, 0))
    THEN LET checkCell(j) ==
                 IF ~IsNumber(row.v[j]) \/ ~IsFinite(row.v[j])
                 THEN ArrayError("INVALID_PARAMETER", "x[i][j] must be a finite number",
                                 <<i - 1, j - 1>>, Got(row.v[j]))
                 ELSE Null
         IN  FirstFailure([n \in 1..Len(row.v) |-> checkCell(n)])
    ELSE IF IsArray(At(row, 0))
    THEN LET checkInner(j) ==
                 LET innerRow == row.v[j]
                     checkLeaf(k) ==
                         IF ~IsNumber(innerRow.v[k]) \/ ~IsFinite(innerRow.v[k])
                         THEN ArrayError("INVALID_PARAMETER",
                                         "x[i][j][k] must be a finite number",
                                         <<i - 1, j - 1, k - 1>>, Got(innerRow.v[k]))
                         ELSE Null
                 IN  IF ~IsArray(innerRow)
                     THEN ArrayError("INVALID_PARAMETER", "x[i][j] must be an array",
                                     <<i - 1, j - 1>>, Got(TypeofStr(innerRow)))
                     ELSE FirstFailure([n \in 1..Len(innerRow.v) |-> checkLeaf(n)])
         IN  FirstFailure([n \in 1..Len(row.v) |-> checkInner(n)])
    ELSE ArrayError("INVALID_PARAMETER", "x[i][0] must be either a number or an array",
                    <<i - 1>>, Got(TypeofStr(At(row, 0))))

validateArrayInput(x) ==
    IF ~IsArray(x)
    THEN ArrayError("INVALID_PARAMETER", "Time series data must be an array", NoIndex,
                    Got(TypeofStr(x)))
    ELSE IF Len(x.v) = 0
    THEN ArrayError("INVALID_VALUE_RANGE", "Time series data array cannot be empty",
                    NoIndex, NoDetails)
    ELSE IF IsNumber(At(x, 0))
    THEN LET checkElement(i) ==
                 IF ~IsNumber(x.v[i]) \/ ~IsFinite(x.v[i])
                 THEN ArrayError("INVALID_PARAMETER", "x[i] must be a finite number",
                                 <<i - 1>>, Got(x.v[i]))
                 ELSE Null
         IN  FirstFailure([n \in 1..Len(x.v) |-> checkElement(n)])
    ELSE IF IsArray(At(x, 0))
    THEN LET checkRow(i) == validateRow(x.v[i], i)
         IN  FirstFailure([n \in 1..Len(x.v) |-> checkRow(n)])
    ELSE ArrayError("INVALID_PARAMETER",
                    "Time series data must be an array of numbers or nested arrays",
                    NoIndex, [prefix |-> "First element is: ", arg |-> TypeofStr(At(x, 0))])

ModelNames == {Chronos2, TiRex}
Point == Str(<<"p", "o", "i", "n", "t">>)
Quantiles == Str(<<"q", "u", "a", "n", "t", "i", "l", "e", "s">>)
OutputTypes == {Point, Quantiles}

\* the check of req.model with the model a required field
validateModel_Required(req) ==
    LET model == Field(req, "model")
    IN  IF ~Truthy(model)
        THEN ErrorResponse("MISSING_REQUIRED_FIELD", "Missing required field: model",
                           NoIndex, "model", NoDetails)
        ELSE IF Typeof(model) # "string" \/ model \notin ModelNames
        THEN ErrorResponse("INVALID_PARAMETER", "Model must be either \"chronos2\" or \"tirex\"",
                           NoIndex, "model", Got(model))
        ELSE Null

\* the check of req.model; null when it passes
validateModel(req) ==
    LET model == Field(req, "model")
    IN  IF model # Undefined /\ model # Null
           /\ (Typeof(model) # "string" \/ model \notin ModelNames)
        THEN ErrorResponse("INVALID_PARAMETER", "Model must be either \"chronos2\" or \"tirex\"",
                           NoIndex, "model", Got(model))
        ELSE Null

\* the horizon checks with presence tested against undefined only
validateHorizon_NullPresent(req) ==
    LET horizon == Field(req, "horizon")
    IN  IF horizon = Undefined
        THEN ErrorResponse("MISSING_REQUIRED_FIELD", "Missing required field: horizon",
                           NoIndex, "horizon", NoDetails)
        ELSE IF Typeof(horizon) # "number" \/ ~IsFinite(horizon)
        THEN ErrorResponse("INVALID_PARAMETER", "Horizon must be a finite number",
                           NoIndex, "horizon", Got(horizon))
        ELSE IF NumLessEq(horizon, 0)
        THEN ErrorResponse("INVALID_VALUE_RANGE", "Horizon must be greater than 0",
                           NoIndex, "horizon", Got(horizon))
        ELSE IF NumGreater(horizon, MaxHorizon)
        THEN ErrorResponse("INVALID_VALUE_RANGE",
                           "Horizon is too large. Maximum supported is 1024",
                           NoIndex, "horizon", Got(horizon))
        ELSE Null

\* the horizon checks with the maximum itself out of range
validateHorizon_ExclusiveMax(req) ==
    LET horizon == Field(req, "horizon")
    IN  IF horizon = Undefined \/ horizon = Null
        THEN ErrorResponse("MISSING_REQUIRED_FIELD", "Missing required field: horizon",
                           NoIndex, "horizon", NoDetails)
        ELSE IF Typeof(horizon) # "number" \/ ~IsFinite(horizon)
        THEN ErrorResponse("INVALID_PARAMETER", "Horizon must be a finite number",
                           NoIndex, "horizon", Got(horizon))
        ELSE IF NumLessEq(horizon, 0)
        THEN ErrorResponse("INVALID_VALUE_RANGE", "Horizon must be greater than 0",
                           NoIndex, "horizon", Got(horizon))
        ELSE IF ~NumLess(horizon, MaxHorizon)
        THEN ErrorResponse("INVALID_VALUE_RANGE",
                           "Horizon is too large. Maximum supported is 1024",
                           NoIndex, "horizon", Got(horizon))
        ELSE Null

\* the checks of req.horizon
validateHorizon(req) ==
    LET horizon == Field(req, "horizon")
    IN  IF horizon = Undefined \/ horizon = Null
        THEN ErrorResponse("MISSING_REQUIRED_FIELD", "Missing required field: horizon",
                           NoIndex, "horizon", NoDetails)
        ELSE IF Typeof(horizon) # "number" \/ ~IsFinite(horizon)
        THEN ErrorResponse("INVALID_PARAMETER", "Horizon must be a finite number",
                           NoIndex, "horizon", Got(horizon))
        ELSE IF NumLessEq(horizon, 0)
        THEN ErrorResponse("INVALID_VALUE_RANGE", "Horizon must be greater than 0",
                           NoIndex, "horizon", Got(horizon))
        ELSE IF NumGreater(horizon, MaxHorizon)
        THEN ErrorResponse("INVALID_VALUE_RANGE",
                           "Horizon is too large. Maximum supported is 1024",
                           NoIndex, "horizon", Got(horizon))
        ELSE Null

\* the checks of req.x with a string handed to the array checks unparsed
validateX_NoParse(req) ==
    LET x == Field(req, "x")
        xError == validateArrayInput(x)
    IN  IF ~Truthy(x)
        THEN ErrorResponse("MISSING_REQUIRED_FIELD",
                           "Missing required field: x (time series data)",
                           NoIndex, "x", NoDetails)
        ELSE IF xError # Null
        THEN ErrorResponse(xError.v.error_code, xError.v.message.text,
                           xError.v.message.index, "x", xError.v.details)
        ELSE Null

\* the checks of req.x: presence, JSON parsing of a string, array structure
validateX(req) ==
    LET x == Field(req, "x")
        parsed == IF Typeof(x) = "string" THEN JSONParse(x.v) ELSE x
        xError == validateArrayInput(parsed)
    IN  IF ~Truthy(x)
        THEN ErrorResponse("MISSING_REQUIRED_FIELD",
                           "Missing required field: x (time series data)",
                           NoIndex, "x", NoDetails)
        ELSE IF parsed.t = "throw"
        THEN ErrorResponse("INVALID_PARAMETER",
                           "x parameter must be an array. If passing as string, it must be valid JSON.",
                           NoIndex, "x",
                           [prefix |-> "Failed to parse x: ", arg |-> parsed])
        ELSE IF xError # Null
        THEN ErrorResponse(xError.v.error_code, xError.v.message.text,
                           xError.v.message.index, "x", xError.v.details)
        ELSE Null

\* the checks of req.output_type
validateOutputType(req) ==
    LET output_type == Field(req, "output_type")
    IN  IF output_type = Undefined \/ output_type = Null THEN Null
        ELSE IF Typeof(output_type) # "string"
        THEN ErrorResponse("INVALID_PARAMETER", "output_type must be a string",
                           NoIndex, "output_type", NoDetails)
        ELSE IF output_type \notin OutputTypes
        THEN ErrorResponse("INVALID_PARAMETER",
                           "output_type must be one of: point, quantiles",
                           NoIndex, "output_type", Got(output_type))
        ELSE Null

\* the checks of req.quantiles with the scan reporting the last offending
\* element instead of the first
validateQuantiles_LastOffender(req) ==
    LET quantiles == Field(req, "quantiles")
        checkQuantile(i) ==
            LET q == quantiles.v[i]
            IN  IF Typeof(q) # "number" \/ ~IsFinite(q)
                THEN ErrorResponse("INVALID_PARAMETER", "quantiles[i] must be a finite number",
                                   <<i - 1>>, "quantiles", Got(q))
                ELSE IF NumLess(q, 0) \/ NumGreater(q, 1)
                THEN ErrorResponse("INVALID_VALUE_RANGE", "quantiles[i] must be between 0 and 1",
                                   <<i - 1>>, "quantiles", Got(q))
                ELSE Null
    IN  IF quantiles = Undefined \/ quantiles = Null THEN Null
        ELSE IF ~IsArray(quantiles)
        THEN ErrorResponse("INVALID_PARAMETER", "quantiles must be an array",
                           NoIndex, "quantiles", NoDetails)
        ELSE IF Len(quantiles.v) = 0
        THEN ErrorResponse("INVALID_VALUE_RANGE", "quantiles array must not be empty",
                           NoIndex, "quantiles", NoDetails)
        ELSE FirstFailure([n \in 1..Len(quantiles.v) |->
                              checkQuantile(Len(quantiles.v) + 1 - n)])

\* the checks of req.quantiles
validateQuantiles(req) ==
    LET quantiles == Field(req, "quantiles")
        checkQuantile(i) ==
            LET q == quantiles.v[i]
            IN  IF Typeof(q) # "number" \/ ~IsFinite(q)
                THEN ErrorResponse("INVALID_PARAMETER", "quantiles[i] must be a finite number",
                                   <<i - 1>>, "quantiles", Got(q))
                ELSE IF NumLess(q, 0) \/ NumGreater(q, 1)
                THEN ErrorResponse("INVALID_VALUE_RANGE", "quantiles[i] must be between 0 and 1",
                                   <<i - 1>>, "quantiles", Got(q))
                ELSE Null
    IN  IF quantiles = Undefined \/ quantiles = Null THEN Null
        ELSE IF ~IsArray(quantiles)
        THEN ErrorResponse("INVALID_PARAMETER", "quantiles must be an array",
                           NoIndex, "quantiles", NoDetails)
        ELSE IF Len(quantiles.v) = 0
        THEN ErrorResponse("INVALID_VALUE_RANGE", "quantiles array must not be empty",
                           NoIndex, "quantiles", NoDetails)
        ELSE FirstFailure([n \in 1..Len(quantiles.v) |-> checkQuantile(n)])

\* the validator with x checked before the horizon
validateForecastRequest_XBeforeHorizon(req) ==
    LET modelError == validateModel(req)
        horizonError == validateHorizon(req)
        xError == validateX(req)
        outputTypeError == validateOutputType(req)
        quantilesError == validateQuantiles(req)
    IN  IF ~Truthy(req) \/ Typeof(req) # "object"
        THEN ErrorResponse("INVALID_REQUEST", "Request must be a valid object",
                           NoIndex, "root", NoDetails)
        ELSE IF modelError # Null THEN modelError
        ELSE IF xError # Null THEN xError
        ELSE IF horizonError # Null THEN horizonError
        ELSE IF outputTypeError # Null THEN outputTypeError
        ELSE IF quantilesError # Null THEN quantilesError
        ELSE Null

validateForecastRequest(req) ==
    LET modelError == validateModel(req)
        horizonError == validateHorizon(req)
        xError == validateX(req)
        outputTypeError == validateOutputType(req)
        quantilesError == validateQuantiles(req)
    IN  IF ~Truthy(req) \/ Typeof(req) # "object"
        THEN ErrorResponse("INVALID_REQUEST", "Request must be a valid object",
                           NoIndex, "root", NoDetails)
        ELSE IF modelError # Null THEN modelError
        ELSE IF horizonError # Null THEN horizonError
        ELSE IF xError # Null THEN xError
        ELSE IF outputTypeError # Null THEN outputTypeError
        ELSE IF quantilesError # Null THEN quantilesError
        ELSE Null

----------------------------------------------------------------------------
(* transformError (src/utils/errors.ts).  An Error instance is the value
   [t |-> "error"] with its name and its message, a string whose characters
   matter (it is searched for keywords).  A string of which only equality and
   emptiness matter (an error code, an upstream message) is the value
   [t |-> "text"] holding it whole.  logError only writes to the console and
   is left out. *)

JsError(name, message) == [t |-> "error", v |-> [name |-> name, message |-> Str(message)]]
Text(s) == [t |-> "text", v |-> s]

\* typeof v and the truthiness of v, for these values too
TypeofAny(v) ==
    CASE v.t = "error" -> "object"
      [] v.t = "text" -> "string"
      [] OTHER -> Typeof(v)

TruthyAny(v) == IF v.t = "text" THEN v.v # "" ELSE Truthy(v)

UpperCase ==
    <<"A", "B", "C", "D", "E", "F", "G", "H", "I", "J", "K", "L", "M",
      "N", "O", "P", "Q", "R", "S", "T", "U", "V", "W", "X", "Y", "Z">>
LowerCase ==
    <<"a", "b", "c", "d", "e", "f", "g", "h", "i", "j", "k", "l", "m",
      "n", "o", "p", "q", "r", "s", "t", "u", "v", "w", "x", "y", "z">>

\* String.prototype.toLowerCase, on a sequence of characters
ToLowerCase(chars) ==
    [i \in 1..Len(chars) |->
        IF \E k \in 1..26 : UpperCase[k] = chars[i]
        THEN LowerCase[CHOOSE k \in 1..26 : UpperCase[k] = chars[i]]
        ELSE chars[i]]

\* String.prototype.includes
Includes(chars, pattern) ==
    \E i \in 1..(Len(chars) - Len(pattern) + 1) :
        \A j \in 1..Len(pattern) : chars[i + j - 1] = pattern[j]

NetworkPatterns ==
    << <<"E", "C", "O", "N", "N", "R", "E", "F", "U", "S", "E", "D">>,
       <<"E", "C", "O", "N", "N", "R", "E", "S", "E", "T">>,
       <<"E", "H", "O", "S", "T", "U", "N", "R", "E", "A", "C", "H">>,
       <<"E", "N", "E", "T", "U", "N", "R", "E", "A", "C", "H">>,
       <<"g", "e", "t", "a", "d", "d", "r", "i", "n", "f", "o">>,
       <<"c", "o", "n", "n", "e", "c", "t">> >>

TimeoutPatterns ==
    << <<"t", "i", "m", "e", "o", "u", "t">>,
       <<"t", "i", "m", "e", "d", " ", "o", "u", "t">>,
       <<"d", "e", "a", "d", "l", "i", "n", "e", " ", "e", "x", "c", "e", "e", "d", "e", "d">> >>

\* patterns.some((pattern) => message.toLowerCase().includes(pattern.toLowerCase()))
SomePatternIn(patterns, message) ==
    LET lowered == ToLowerCase(message)
    IN  \E k \in 1..Len(patterns) : Includes(lowered, ToLowerCase(patterns[k]))

isNetworkError(message) == SomePatternIn(NetworkPatterns, message)
isTimeoutError(message) == SomePatternIn(TimeoutPatterns, message)

\* an upstream-structured failure: a non-Error object with a string error_code
isSDKError(error) ==
    /\ TruthyAny(error)
    /\ TypeofAny(error) = "object"
    /\ error.t # "error"
    /\ TypeofAny(Field(error, "error_code")) = "string"

\* the codes that have a suggestion
SuggestionCodes ==
    {"INVALID_API_KEY", "AUTHENTICATION_FAILED", "INSUFFICIENT_FUNDS", "RATE_LIMIT_EXCEEDED",
     "INVALID_SHAPE", "INVALID_PARAMETER", "TIMEOUT_ERROR", "OUT_OF_MEMORY", "MODEL_NOT_FOUND",
     "RESOURCE_EXHAUSTED"}

\* the suggestion of a code, null when it has none
getSuggestionForErrorCode(code) ==
    IF code \in SuggestionCodes THEN [prefix |-> "Suggestion: ", arg |-> Text(code)] ELSE Null

\* the friendly message of a code, or the message given
makeMessageFriendly(message, code) ==
    CASE code = "INVALID_API_KEY" -> "Invalid API key provided"
      [] code = "AUTHENTICATION_REQUIRED" -> "Authentication required"
      [] code = "VALIDATION_ERROR" -> "Input validation failed"
      [] code = "TIMEOUT_ERROR" -> "Request timeout"
      [] OTHER -> message

\* the context handed to transformError: the operation (a model name
\* interpolated before " forecast", or "forecast" alone) and the field
Context(operation, field) == [operation |-> operation, field |-> field]
NoField == ""

\* parts.join(' | '), kept as the sequence of its parts; undefined when empty
Joined(parts) == IF parts = <<>> THEN NoDetails ELSE [prefix |-> "joined", arg |-> parts]

\* the ErrorResponse transformError builds: { error_code, message, details, field }
Classified(code, text, details, field) ==
    Obj([error_code |-> code, message |-> [text |-> text, index |-> NoIndex],
         field |-> field, details |-> details])

\* transformSDKError keeping only the codes it has a suggestion for
transformSDKError_UnknownCodeReplaced(error, context) ==
    LET given == IF TruthyAny(Field(error, "error_code"))
                 THEN Field(error, "error_code").v ELSE "UNKNOWN_SDK_ERROR"
        code == IF given \in SuggestionCodes THEN given ELSE "UNKNOWN_SDK_ERROR"
        message == IF TruthyAny(Field(error, "message"))
                   THEN Field(error, "message").v ELSE "An error occurred in the FAIM SDK"
        operation == <<[prefix |-> "Operation: ", arg |-> context.operation]>>
    IN  Classified(code, makeMessageFriendly(message, code), Joined(operation), context.field)

transformSDKError(error, context) ==
    LET code == IF TruthyAny(Field(error, "error_code"))
                THEN Field(error, "error_code").v ELSE "UNKNOWN_SDK_ERROR"
        message == IF TruthyAny(Field(error, "message"))
                   THEN Field(error, "message").v ELSE "An error occurred in the FAIM SDK"
        detail == IF TruthyAny(Field(error, "detail"))
                  THEN <<[prefix |-> "Details: ", arg |-> Field(error, "detail")]>> ELSE <<>>
        suggestion == IF getSuggestionForErrorCode(code) # Null
                      THEN <<getSuggestionForErrorCode(code)>> ELSE <<>>
        operation == <<[prefix |-> "Operation: ", arg |-> context.operation]>>
    IN  Classified(code, makeMessageFriendly(message, code),
                   Joined(detail \o suggestion \o operation), context.field)

\* transformJavaScriptError looking for a timeout keyword before a
\* connectivity keyword
transformJavaScriptError_TimeoutFirst(error, context) ==
    LET message == IF Len(error.v.message.v) > 0 THEN error.v.message.v
                   ELSE <<"U", "n", "k", "n", "o", "w", "n", " ", "e", "r", "r", "o", "r">>
        detailsString ==
            Joined(<<[prefix |-> "", arg |-> Str(message)],
                     [prefix |-> "Operation: ", arg |-> context.operation]>>)
    IN  IF isTimeoutError(message)
        THEN Classified("TIMEOUT_ERROR",
                        "Request to FAIM API timed out. Try a smaller forecast or longer timeout.",
                        detailsString, context.field)
        ELSE IF isNetworkError(message)
        THEN Classified("NETWORK_ERROR",
                        "Failed to connect to FAIM API. Please check your network connection.",
                        detailsString, context.field)
        ELSE IF error.v.name = "TypeError"
        THEN Classified("INTERNAL_SERVER_ERROR",
                        "An internal error occurred (type error). Please contact support.",
                        detailsString, context.field)
        ELSE Classified("INTERNAL_ERROR", "An unexpected error occurred",
                        [prefix |-> error.v.name, arg |-> detailsString], context.field)

transformJavaScriptError(error, context) ==
    LET message == IF Len(error.v.message.v) > 0 THEN error.v.message.v
                   ELSE <<"U", "n", "k", "n", "o", "w", "n", " ", "e", "r", "r", "o", "r">>
        detailsString ==
            Joined(<<[prefix |-> "", arg |-> Str(message)],
                     [prefix |-> "Operation: ", arg |-> context.operation]>>)
    IN  IF isNetworkError(message)
        THEN Classified("NETWORK_ERROR",
                        "Failed to connect to FAIM API. Please check your network connection.",
                        detailsString, context.field)
        ELSE IF isTimeoutError(message)
        THEN Classified("TIMEOUT_ERROR",
                        "Request to FAIM API timed out. Try a smaller forecast or longer timeout.",
                        detailsString, context.field)
        ELSE IF error.v.name = "TypeError"
        THEN Classified("INTERNAL_SERVER_ERROR",
                        "An internal error occurred (type error). Please contact support.",
                        detailsString, context.field)
        ELSE Classified("INTERNAL_ERROR", "An unexpected error occurred",
                        [prefix |-> error.v.name, arg |-> detailsString], context.field)

\* transformError(error, context), context given
transformError(error, context) ==
    IF isSDKError(error) THEN transformSDKError(error, context)
    ELSE IF error.t = "error" THEN transformJavaScriptError(error, context)
    ELSE IF TypeofAny(error) = "string"
    THEN Classified("UNKNOWN_ERROR", error.v,
                    [prefix |-> "Context: ", arg |-> context], NoField)
    ELSE Classified("UNKNOWN_ERROR", "An unexpected error occurred",
                    [prefix |-> "Error type: ", arg |-> error], NoField)

\* sdkError.error_code || ''
CodeOf(error) ==
    IF TruthyAny(Field(error, "error_code")) THEN Field(error, "error_code").v ELSE ""

RetryableCodes ==
    {"TIMEOUT_ERROR", "OUT_OF_MEMORY", "RESOURCE_EXHAUSTED", "TRITON_CONNECTION_ERROR",
     "BILLING_TRANSACTION_FAILED", "DATABASE_ERROR"}

AuthCodes ==
    {"AUTHENTICATION_REQUIRED", "AUTHENTICATION_FAILED", "INVALID_API_KEY",
     "AUTHORIZATION_FAILED"}

\* isRetryableError without DATABASE_ERROR among its codes
isRetryableError_NoDatabaseError(error) ==
    isSDKError(error) /\ CodeOf(error) \in RetryableCodes \ {"DATABASE_ERROR"}

isRetryableError(error) == isSDKError(error) /\ CodeOf(error) \in RetryableCodes

\* isAuthError with TIMEOUT_ERROR among its codes
isAuthError_WithTimeout(error) ==
    isSDKError(error) /\ CodeOf(error) \in AuthCodes \cup {"TIMEOUT_ERROR"}

isAuthError(error) == isSDKError(error) /\ CodeOf(error) \in AuthCodes

----------------------------------------------------------------------------
(* forecast (src/tools/forecast.ts).  The function runs to its await of the
   client's operation, and resumes when that operation settles. *)

\* the characters a template literal interpolates for a value
ToStringJS(v) ==
    CASE v.t = "undefined" -> <<"u", "n", "d", "e", "f", "i", "n", "e", "d">>
      [] v.t = "null" -> <<"n", "u", "l", "l">>
      [] v.t = "string" -> v.v
      [] v.t = "boolean" -> IF v.v[1] THEN <<"t", "r", "u", "e">> ELSE <<"f", "a", "l", "s", "e">>
      [] v.t = "number" /\ v.v[2] = 1 /\ v.v[1] >= 0 ->
            IF v.v[1] < 10 THEN <<Digits[v.v[1] + 1]>>
            ELSE <<Digits[(v.v[1] \div 10) + 1], Digits[(v.v[1] % 10) + 1]>>

\* the message of the SyntaxError JSON.parse threw (the engine's words for
\* the position are left out)
SyntaxErrorMessage(thrown) ==
    IF thrown.v[1].text = "Unexpected token"
    THEN <<"U", "n", "e", "x", "p", "e", "c", "t", "e", "d", " ", "t", "o", "k", "e", "n">>
    ELSE
        <<"U", "n", "e", "x", "p", "e", "c", "t", "e", "d", " ", "e", "n", "d", " ", "o", "f",
          " ", "J", "S", "O", "N", " ", "i", "n", "p", "u", "t">>

FailedToParse ==
    <<"F", "a", "i", "l", "e", "d", " ", "t", "o", " ", "p", "a", "r", "s", "e", " ", "x", " ",
      "p", "a", "r", "a", "m", "e", "t", "e", "r", " ", "a", "s", " ", "J", "S", "O", "N", ":",
      " ">>
UnknownModel ==
    <<"U", "n", "k", "n", "o", "w", "n", " ", "m", "o", "d", "e", "l", ":", " ">>
UnexpectedOutputType ==
    <<"U", "n", "e", "x", "p", "e", "c", "t", "e", "d", " ", "o", "u", "t", "p", "u", "t", " ",
      "t", "y", "p", "e", ":", " ">>
ClientNotInitialized ==
    <<"F", "A", "I", "M", " ", "c", "l", "i", "e", "n", "t", " ", "n", "o", "t", " ", "i", "n",
      "i", "t", "i", "a", "l", "i", "z", "e", "d", ".", " ", "C", "a", "l", "l", " ", "i", "n",
      "i", "t", "i", "a", "l", "i", "z", "e", "C", "l", "i", "e", "n", "t", "(", ")", " ", "d",
      "u", "r", "i", "n", "g", " ", "s", "e", "r", "v", "e", "r", " ", "s", "t", "a", "r", "t",
      "u", "p", ".">>

\* the ToolResult envelopes
Success(data) == Obj([success |-> Bool(TRUE), data |-> data])
Failure(error) == Obj([success |-> Bool(FALSE), error |-> error])

\* getClient(): the client, or the Error it throws
getClient(instance, initError) ==
    IF initError # Null THEN Thrown(initError)
    ELSE IF instance = Null THEN Thrown(JsError("Error", ClientNotInitialized))
    ELSE instance

\* what the first part of forecast comes to: a returned envelope, or a call
\* of a client operation that is awaited
Returned(envelope) == [awaits |-> FALSE, envelope |-> envelope]
Awaited(operation, args, outputShape) ==
    [awaits |-> TRUE, operation |-> operation, args |-> args, outputShape |-> outputShape]

\* the catch clause of forecast
Caught(error) ==
    Returned(Failure(transformError(error, Context(<<Text("forecast")>>, NoField))))

\* a || b
OrElse(a, b) == IF Truthy(a) THEN a ELSE b

\* the Error a Thrown value stands for
ErrorThrown(thrown) ==
    JsError(IF "name" \in DOMAIN thrown THEN thrown.name ELSE "Error", thrown.v[1])

\* the arguments of the client's operations
Chronos2Args(x, req) ==
    Obj([x |-> x, horizon |-> Field(req, "horizon"),
         output_type |-> OrElse(Field(req, "output_type"), Point),
         quantiles |-> Field(req, "quantiles")])
TiRexArgs(x, req) ==
    IF Truthy(Field(req, "quantiles"))
    THEN Obj([x |-> x, horizon |-> Field(req, "horizon"),
              output_type |-> OrElse(Field(req, "output_type"), Point),
              quantiles |-> Field(req, "quantiles")])
    ELSE Obj([x |-> x, horizon |-> Field(req, "horizon"),
              output_type |-> OrElse(Field(req, "output_type"), Point)])

\* forecast with an unknown model's Error thrown outside the try block, so
\* that the promise rejects
forecastCall_UnknownModelUncaught(req, instance, initError) ==
    LET x == Field(req, "x")
        xData == IF Typeof(x) = "string" THEN JSONParse(x.v) ELSE x
        normalizedX == normalizeInput(xData, Undefined, Undefined)
        client == getClient(instance, initError)
        model == Field(req, "model")
    IN  IF req \in {Undefined, Null}
        THEN Caught(JsError("TypeError", CannotReadProperties(req, <<"x">>)))
        ELSE IF xData.t = "throw"
        THEN Caught(JsError("Error", FailedToParse \o SyntaxErrorMessage(xData)))
        ELSE IF normalizedX.t = "throw" THEN Caught(ErrorThrown(normalizedX))
        ELSE IF client.t = "throw" THEN Caught(client.v[1])
        ELSE IF model = Chronos2
        THEN Awaited("forecastChronos2", Chronos2Args(normalizedX, req),
                     getArrayShape(normalizedX))
        ELSE IF model = TiRex
        THEN Awaited("forecastTiRex", TiRexArgs(normalizedX, req), getArrayShape(normalizedX))
        ELSE Returned(Thrown(JsError("Error", UnknownModel \o ToStringJS(model))))

\* forecast, from its entry to the await of the client's operation (or to
\* the envelope it returns before any call)
forecastCall(req, instance, initError) ==
    LET x == Field(req, "x")
        xData == IF Typeof(x) = "string" THEN JSONParse(x.v) ELSE x
        normalizedX == normalizeInput(xData, Undefined, Undefined)
        client == getClient(instance, initError)
        model == Field(req, "model")
    IN  IF req \in {Undefined, Null}
        THEN Caught(JsError("TypeError", CannotReadProperties(req, <<"x">>)))
        ELSE IF xData.t = "throw"
        THEN Caught(JsError("Error", FailedToParse \o SyntaxErrorMessage(xData)))
        ELSE IF normalizedX.t = "throw" THEN Caught(ErrorThrown(normalizedX))
        ELSE IF client.t = "throw" THEN Caught(client.v[1])
        ELSE IF model = Chronos2
        THEN Awaited("forecastChronos2", Chronos2Args(normalizedX, req),
                     getArrayShape(normalizedX))
        ELSE IF model = TiRex
        THEN Awaited("forecastTiRex", TiRexArgs(normalizedX, req), getArrayShape(normalizedX))
        ELSE Caught(JsError("Error", UnknownModel \o ToStringJS(model)))

\* how an awaited operation settles: it throws (rejects with) a value, or
\* resolves to one
Throws(value) == [throws |-> TRUE, value |-> value]
Resolves(value) == [throws |-> FALSE, value |-> value]

\* forecast, from the settling of the awaited operation to its return;
\* duration is Date.now() - startTime
forecastResume(req, awaited, settled, duration) ==
    LET result == settled.value
        sdkResponse == Field(result, "data")
        outputType == OrElse(Field(req, "output_type"), Point)
        outputs == Field(sdkResponse, "outputs")
        metadata == Field(sdkResponse, "metadata")
        values == IF outputType = Point THEN Field(outputs, "point")
                  ELSE Field(outputs, "quantiles")
        response ==
            Obj([model_name |-> Field(metadata, "model_name"),
                 model_version |-> Field(metadata, "model_version"),
                 output_type |-> outputType,
                 forecast |-> IF outputType = Point THEN Obj([point |-> values])
                              ELSE Obj([quantiles |-> values]),
                 metadata |-> Obj([token_count |-> Field(metadata, "token_count"),
                                   duration_ms |-> duration]),
                 shape_info |-> Obj([input_shape |-> awaited.outputShape,
                                     output_shape |-> getArrayShape(values)])])
    IN  IF settled.throws THEN Caught(result)
        ELSE IF result \in {Undefined, Null}
        THEN Caught(JsError("TypeError",
                            CannotReadProperties(result, <<"s", "u", "c", "c", "e", "s", "s">>)))
        ELSE IF ~TruthyAny(Field(result, "success"))
        THEN Returned(Failure(transformError(
                 Field(result, "error"),
                 Context(<<Field(req, "model"), Text(" forecast")>>, NoField))))
        ELSE IF outputType \notin {Point, Quantiles}
        THEN Caught(JsError("Error", UnexpectedOutputType \o ToStringJS(outputType)))
        ELSE IF sdkResponse \in {Undefined, Null}
        THEN Caught(JsError("TypeError",
                            CannotReadProperties(sdkResponse, <<"o", "u", "t", "p", "u", "t", "s">>)))
        ELSE IF outputs \in {Undefined, Null}
        THEN Caught(JsError("TypeError",
                            CannotReadProperties(outputs, IF outputType = Point THEN Point.v
                                                          ELSE Quantiles.v)))
        ELSE IF metadata \in {Undefined, Null}
        THEN Caught(JsError("TypeError",
                            CannotReadProperties(metadata,
                                <<"m", "o", "d", "e", "l", "_", "n", "a", "m", "e">>)))
        ELSE Returned(Success(response))

----------------------------------------------------------------------------
(* The client singleton (src/utils/client.ts).  The module state is
   clientInstance, initializationAttempted and initializationError; each
   function is given the state it reads and returns the state it leaves
   with what it returned or threw.  A FaimClient is told from another by
   the serial number of its construction. *)

ApiKeyNotSet ==
    <<"F", "A", "I", "M", "_", "A", "P", "I", "_", "K", "E", "Y", " ", "e", "n", "v", "i", "r",
      "o", "n", "m", "e", "n", "t", " ", "v", "a", "r", "i", "a", "b", "l", "e", " ", "i", "s",
      " ", "n", "o", "t", " ", "s", "e", "t", ".", " ", "P", "l", "e", "a", "s", "e", " ", "s",
      "e", "t", " ", "i", "t", " ", "b", "e", "f", "o", "r", "e", " ", "s", "t", "a", "r", "t",
      "i", "n", "g", " ", "t", "h", "e", " ", "M", "C", "P", " ", "s", "e", "r", "v", "e", "r",
      ".">>

\* the n-th FaimClient constructed, with the key it was given
NewFaimClient(key, serial) == Obj([apiKey |-> key, serial |-> serial])

\* !apiKey || apiKey.trim().length === 0
KeyMissing(key) == ~Truthy(key) \/ \A i \in 1..Len(key.v) : key.v[i] = " "

\* what a function of client.ts leaves and gives: the three module
\* variables, the value returned or thrown, whether initialization was
\* attempted by this call, and whether a FaimClient was constructed
ClientStep(instance, attempted, initError, outcome, fresh, built) ==
    [instance |-> instance, attempted |-> attempted, initError |-> initError,
     outcome |-> outcome, fresh |-> fresh, built |-> built]

\* initializeClient without its guard against a second initialization
initializeClient_NoGuard(instance, attempted, initError, key, construction, serial) ==
    IF KeyMissing(key)
    THEN ClientStep(instance, TRUE, JsError("Error", ApiKeyNotSet),
                    Thrown(JsError("Error", ApiKeyNotSet)), TRUE, FALSE)
    ELSE IF construction.throws
    THEN LET stored == IF construction.value.t = "error" THEN construction.value
                       ELSE JsError("Error", ToStringJS(construction.value))
         IN  ClientStep(instance, TRUE, stored, Thrown(stored), TRUE, FALSE)
    ELSE ClientStep(NewFaimClient(key, serial), TRUE, initError, Undefined, TRUE, TRUE)

\* initializeClient guarded by the instance alone, so that it tries again
\* after a failure
initializeClient_RetriesAfterFailure(instance, attempted, initError, key, construction, serial) ==
    IF instance # Null
    THEN ClientStep(instance, attempted, initError, Undefined, FALSE, FALSE)
    ELSE IF KeyMissing(key)
    THEN ClientStep(instance, TRUE, JsError("Error", ApiKeyNotSet),
                    Thrown(JsError("Error", ApiKeyNotSet)), TRUE, FALSE)
    ELSE IF construction.throws
    THEN LET stored == IF construction.value.t = "error" THEN construction.value
                       ELSE JsError("Error", ToStringJS(construction.value))
         IN  ClientStep(instance, TRUE, stored, Thrown(stored), TRUE, FALSE)
    ELSE ClientStep(NewFaimClient(key, serial), TRUE, Null, Undefined, TRUE, TRUE)

\* initializeClient: key is process.env.FAIM_API_KEY, construction is how
\* new FaimClient(...) ends, serial numbers the client it constructs
initializeClient(instance, attempted, initError, key, construction, serial) ==
    IF attempted
    THEN IF initError # Null
         THEN ClientStep(instance, attempted, initError, Thrown(initError), FALSE, FALSE)
         ELSE ClientStep(instance, attempted, initError, Undefined, FALSE, FALSE)
    ELSE IF KeyMissing(key)
    THEN ClientStep(instance, TRUE, JsError("Error", ApiKeyNotSet),
                    Thrown(JsError("Error", ApiKeyNotSet)), TRUE, FALSE)
    ELSE IF construction.throws
    THEN LET stored == IF construction.value.t = "error" THEN construction.value
                       ELSE JsError("Error", ToStringJS(construction.value))
         IN  ClientStep(instance, TRUE, stored, Thrown(stored), TRUE, FALSE)
    ELSE ClientStep(NewFaimClient(key, serial), TRUE, initError, Undefined, TRUE, TRUE)

resetClient == ClientStep(Null, FALSE, Null, Undefined, FALSE, FALSE)

isClientReady(instance, initError) == instance # Null /\ initError = Null

----------------------------------------------------------------------------
(* The inputs explored *)

SeqsUpTo(S, n) == UNION {[1..k -> S] : k \in 0..n}

\* rows of numbers, and arrays of such rows (ragged and empty ones included)
Vectors == {Arr(s) : s \in SeqsUpTo({Int1(1), Int1(2)}, MaxCols)}
Matrices == {Arr(s) : s \in SeqsUpTo(Vectors, MaxRows)}

\* every array of nesting depth up to 3 over a number and a string
NestLeaves == {Int1(1), Str(<<"a">>)}
Nest1 == {Arr(s) : s \in SeqsUpTo(NestLeaves, MaxNest)}
Nest2 == {Arr(s) : s \in SeqsUpTo(NestLeaves \cup Nest1, MaxNest)}
Nest3 == {Arr(s) : s \in SeqsUpTo(NestLeaves \cup Nest1 \cup Nest2, MaxNest)}

\* larger tensors, and arrays with a defect
ExtraArrays ==
    { Arr(<<Int1(1), Int1(2), Int1(3)>>),
      Arr(<<Arr(<<Int1(1), Int1(2), Int1(3)>>), Arr(<<Int1(4), Int1(5), Int1(6)>>)>>),
      Arr(<<Arr(<<Int1(1), Int1(2)>>), Arr(<<Int1(3), Int1(4)>>), Arr(<<Int1(5), Int1(6)>>)>>),
      Arr(<<Arr(<<Int1(1), Int1(2), Int1(3)>>), Arr(<<Int1(4), Int1(5)>>)>>),
      Arr(<<Arr(<<Arr(<<Int1(1), Int1(2)>>), Arr(<<Int1(3), Int1(4)>>)>>)>>),
      Arr(<<Arr(<<Arr(<<Int1(1)>>), Arr(<<Int1(2)>>), Arr(<<Int1(3)>>)>>)>>),
      Arr(<<Arr(<<Arr(<<Int1(1)>>)>>), Arr(<<Arr(<<Int1(2)>>)>>)>>),
      Arr(<<Arr(<<Arr(<<Int1(1), Int1(2)>>), Arr(<<Int1(3)>>)>>)>>),
      Arr(<<Arr(<<Arr(<<Arr(<<Int1(1)>>)>>)>>)>>),
      Arr(<<Int1(1), NaN>>),
      Arr(<<NaN, Int1(1)>>),
      Arr(<<Int1(1), Infinity>>),
      Arr(<<Int1(1), Null>>),
      Arr(<<Null, Int1(1)>>),
      Arr(<<Int1(1), Arr(<<Int1(2)>>)>>),
      Arr(<<Arr(<<Int1(1)>>), Int1(2)>>),
      Arr(<<Arr(<<Int1(1)>>), Arr(<<>>)>>),
      Arr(<<Arr(<<Int1(1), NaN>>)>>),
      Arr(<<Arr(<<Int1(1)>>), Arr(<<Int1(2), Str(<<"a">>)>>)>>),
      Arr(<<Arr(<<Int1(1), Arr(<<Int1(2)>>)>>)>>),
      Arr(<<Arr(<<Int1(1)>>), Arr(<<Arr(<<Int1(2)>>)>>)>>),
      Arr(<<Arr(<<Arr(<<Int1(1)>>)>>), Arr(<<Int1(2)>>)>>),
      Arr(<<Arr(<<Arr(<<Int1(1)>>), Int1(2)>>)>>),
      Arr(<<Arr(<<Arr(<<Int1(1)>>), Arr(<<>>)>>)>>),
      Arr(<<Arr(<<Arr(<<Int1(1), NaN>>)>>)>>),
      Arr(<<Arr(<<Arr(<<Int1(1)>>), Arr(<<Int1(2), Bool(TRUE)>>)>>)>>),
      Arr(<<Arr(<<Bool(TRUE)>>)>>),
      Arr(<<Obj(<<>>)>>) }

XArrays == Vectors \cup Matrices \cup Nest1 \cup Nest2 \cup Nest3 \cup ExtraArrays

ModelArgs == {Chronos2, TiRex, Str(<<"g", "p", "t">>), Undefined}
FlagArgs == {Bool(TRUE), Bool(FALSE), Undefined}

\* values of the request's fields
ModelValues == {Undefined, Null, Chronos2, TiRex, Str(<<"g", "p", "t">>), Int1(5)}

HorizonValues ==
    {Undefined, Null, Str(<<"1", "0">>), NaN, Int1(0), Int1(-1),
     Int1(1), Num(3, 2), Int1(MaxHorizon), Int1(MaxHorizon + 1)}

XStrings ==
    { Str(<<"[", "1", ",", "2", "]">>),
      Str(<<"[", "[", "1", ",", "2", "]", ",", "[", "1", "0", ",", "4", "]", "]">>),
      Str(<<"[", "[", "[", "1", "]", ",", "[", "2", "]", "]", "]">>),
      Str(<<"[", "1", ",", "]">>),
      Str(<<"[", "1", ",", "2">>),
      Str(<<"[", "]">>),
      Str(<<"1", "2">>),
      Str(<<"[", "1", "]", "]">>),
      Str(<<"[", "0", "1", "]">>),
      Str(<<"o", "o", "p", "s">>) }

XSmallValues ==
    { Undefined, Null, Int1(0), Str(<<>>), Obj(<<>>),
      Str(<<"[", "1", ",", "2", "]">>),
      Str(<<"[", "1", ",", "2">>),
      Arr(<<>>),
      Arr(<<Int1(1), Int1(2)>>),
      Arr(<<Int1(1), Str(<<"a">>)>>),
      Arr(<<Arr(<<Int1(1), Int1(2)>>), Arr(<<Int1(1), Int1(2)>>)>>),
      Arr(<<Arr(<<Arr(<<Int1(1)>>), Arr(<<Int1(2)>>)>>)>>) }

OutputTypeValues ==
    {Undefined, Null, Point, Quantiles, Str(<<"s", "a", "m", "p", "l", "e", "s">>), Int1(1)}

QuantilesValues ==
    { Undefined, Num(1, 2), Arr(<<>>),
      Arr(<<Int1(0), Num(1, 2), Int1(1)>>),
      Arr(<<Num(1, 10), Num(3, 2), Num(9, 10)>>),
      Arr(<<Num(-1, 10)>>),
      Arr(<<NaN, Num(3, 2)>>),
      Arr(<<Num(3, 2), Str(<<"a">>)>>) }

Request(model, horizon, x, output_type, quantiles, is_multivariate) ==
    Obj([model |-> model, horizon |-> horizon, x |-> x, output_type |-> output_type,
         quantiles |-> quantiles, is_multivariate |-> is_multivariate])

\* requests whose fields are each valid or in violation, in every combination
FieldRequests ==
    { Request(m, h, x, o, q, Undefined) :
        m \in ModelValues, h \in HorizonValues, x \in XSmallValues,
        o \in OutputTypeValues, q \in QuantilesValues }

\* requests whose x is any of the explored arrays or strings, the other
\* fields valid
ArrayRequests ==
    { Request(mf[1], Int1(10), x, Undefined, Undefined, mf[2]) :
        mf \in {<<Undefined, Undefined>>, <<Chronos2, Bool(TRUE)>>, <<TiRex, Bool(TRUE)>>},
        x \in XArrays \cup XStrings }

\* values that are no request object at all
RootValues == {Undefined, Null, Int1(0), Int1(5), Str(<<>>), Str(<<"{", "}">>), Bool(TRUE), Arr(<<>>)}

Requests == FieldRequests \cup ArrayRequests \cup RootValues

----------------------------------------------------------------------------
(* The normalizer, called on an array and then on its own output *)

ClassifyIdle ==
    /\ epc = "idle"
    /\ eError = Undefined
    /\ eContext = Undefined
    /\ eResponse = Undefined
    /\ eRetryable = FALSE
    /\ eAuth = FALSE

ShapeIdle ==
    /\ spc = "idle"
    /\ sArray = Undefined
    /\ sShape = <<>>

ClientIdle ==
    /\ initializationAttempted = FALSE
    /\ apiKey = Undefined
    /\ constructed = 0
    /\ cLog = <<>>

ForecastIdle ==
    /\ fpc = "idle"
    /\ fRequest = Undefined
    /\ clientInstance = Null
    /\ initializationError = Null
    /\ fCalls = <<>>
    /\ fAwaited = Undefined
    /\ fResult = Undefined

NormIdle ==
    /\ vpc = "idle"
    /\ request = Undefined
    /\ vResult = Undefined

InitNorm ==
    /\ npc = "ready"
    /\ nInput \in XArrays
    /\ nModel \in ModelArgs
    /\ nFlag \in FlagArgs
    /\ nOut = Undefined
    /\ nOut2 = Undefined
    /\ NormIdle
    /\ ForecastIdle
    /\ ClassifyIdle
    /\ ShapeIdle
    /\ ClientIdle

Normalize ==
    /\ npc = "ready"
    /\ nOut' = normalizeInput(nInput, nModel, nFlag)
    /\ npc' = IF nOut'.t = "throw" THEN "threw" ELSE "normalized"
    /\ UNCHANGED <<nInput, nModel, nFlag, nOut2, vvars, fvars, evars, svars, cvars>>

Renormalize ==
    /\ npc = "normalized"
    /\ \E m \in ModelArgs, f \in FlagArgs :
          nOut2' = normalizeInput(nOut, m, f)
    /\ npc' = "renormalized"
    /\ UNCHANGED <<nInput, nModel, nFlag, nOut, vvars, fvars, evars, svars, cvars>>

NextNorm == Normalize \/ Renormalize

SpecNorm == InitNorm /\ [][NextNorm]_vars

----------------------------------------------------------------------------
(* The validator, called on a raw request *)

ValidateIdle ==
    /\ npc = "idle"
    /\ nInput = Undefined
    /\ nModel = Undefined
    /\ nFlag = Undefined
    /\ nOut = Undefined
    /\ nOut2 = Undefined

InitValidate ==
    /\ vpc = "ready"
    /\ request \in Requests
    /\ vResult = Undefined
    /\ ValidateIdle
    /\ ForecastIdle
    /\ ClassifyIdle
    /\ ShapeIdle
    /\ ClientIdle

\* validateForecastRequest writing the parsed x back into the request
Validate_StoresParsedX ==
    /\ vpc = "ready"
    /\ vResult' = validateForecastRequest(request)
    /\ vpc' = "validated"
    /\ request' = IF Typeof(Field(request, "x")) = "string"
                       /\ JSONParse(Field(request, "x").v).t # "throw"
                  THEN [request EXCEPT !.v.x = JSONParse(Field(request, "x").v)]
                  ELSE request
    /\ UNCHANGED <<nvars, fvars, evars, svars, cvars>>

Validate ==
    /\ vpc = "ready"
    /\ vResult' = validateForecastRequest(request)
    /\ vpc' = "validated"
    /\ UNCHANGED <<request, nvars, fvars, evars, svars, cvars>>

NextValidate == Validate

SpecValidate == InitValidate /\ [][NextValidate]_vars

----------------------------------------------------------------------------
(* The validator followed by the normalizer: the x of a request the
   validator accepted, parsed when it is a JSON string, is normalized under
   some model and flag *)

NormalizeAccepted ==
    /\ vpc = "validated"
    /\ vResult = Null
    /\ npc = "idle"
    /\ LET x == Field(request, "x")
           xData == IF Typeof(x) = "string" THEN JSONParse(x.v) ELSE x
       IN  /\ nInput' = xData
           /\ \E m \in ModelArgs, f \in FlagArgs :
                  /\ nModel' = m
                  /\ nFlag' = f
                  /\ nOut' = normalizeInput(xData, m, f)
    /\ npc' = IF nOut'.t = "throw" THEN "threw" ELSE "normalized"
    /\ UNCHANGED <<nOut2, vvars, fvars, evars, svars, cvars>>

NextPipeline == Validate \/ NormalizeAccepted

SpecPipeline == InitValidate /\ [][NextPipeline]_vars

----------------------------------------------------------------------------
(* The forecast tool, called on a raw request; the client's operation it
   awaits settles in any of the explored ways *)

\* the x of the requests handed to forecast
ForecastXValues ==
    { Undefined,
      Arr(<<>>),
      Arr(<<Int1(1), Int1(2), Int1(3)>>),
      Arr(<<Arr(<<Int1(1), Int1(2)>>), Arr(<<Int1(3), Int1(4)>>), Arr(<<Int1(5), Int1(6)>>)>>),
      Arr(<<Arr(<<Arr(<<Int1(1)>>), Arr(<<Int1(2)>>)>>)>>),
      Str(<<"[", "1", ",", "2", "]">>),
      Str(<<"[", "1", ",", "2">>) }

ForecastRequests ==
    { Request(m, h, x, o, q, f) :
        m \in ModelValues,
        h \in {Int1(10), Int1(0)},
        x \in ForecastXValues,
        o \in {Undefined, Point, Quantiles, Str(<<"s", "a", "m", "p", "l", "e", "s">>)},
        q \in {Undefined, Arr(<<Num(3, 2)>>)},
        f \in FlagArgs }
    \cup RootValues

\* the FaimClient of the SDK
FaimClient == Obj([apiKey |-> Text("test-key")])

\* the module state of client.ts: initialized, never initialized, or
\* initialization failed
ClientStates ==
    { <<FaimClient, Null>>,
      <<Null, Null>>,
      <<Null, JsError("Error", <<"n", "o", " ", "k", "e", "y">>)>> }

\* what the SDK resolves to on success
SdkResponse(outputs) ==
    Obj([success |-> Bool(TRUE),
         data |-> Obj([outputs |-> outputs,
                       metadata |-> Obj([model_name |-> Text("chronos2"),
                                         model_version |-> Text("1.0"),
                                         token_count |-> Int1(7)])])])

\* an error object of the SDK
SdkError(code, message) == Obj([error_code |-> Text(code), message |-> Text(message)])

\* the ways the awaited operation settles
Settlements ==
    { Resolves(SdkResponse(Obj([point |-> Arr(<<Arr(<<Arr(<<Int1(1)>>), Arr(<<Int1(2)>>)>>)>>)]))),
      Resolves(SdkResponse(Obj([quantiles |->
          Arr(<<Arr(<<Arr(<<Arr(<<Int1(1), Int1(2)>>)>>)>>)>>)]))),
      Resolves(Obj([success |-> Bool(FALSE),
                    error |-> SdkError("VALIDATION_ERROR", "horizon must be positive")])),
      Resolves(Obj([success |-> Bool(FALSE),
                    error |-> SdkError("TIMEOUT_ERROR", "Request timed out")])),
      Resolves(Obj([success |-> Bool(FALSE)])),
      Resolves(Obj([success |-> Bool(TRUE)])),
      Resolves(Undefined),
      Throws(JsError("Error", <<"c", "o", "n", "n", "e", "c", "t", " ", "E", "C", "O", "N", "N",
                                "R", "E", "F", "U", "S", "E", "D">>)),
      Throws(JsError("Error", <<"R", "e", "q", "u", "e", "s", "t", " ", "t", "i", "m", "e", "d",
                                " ", "o", "u", "t">>)),
      Throws(JsError("TypeError", <<"x", " ", "i", "s", " ", "n", "o", "t", " ", "a", " ", "f",
                                    "u", "n", "c", "t", "i", "o", "n">>)),
      Throws(JsError("Error", <<>>)),
      Throws(Text("boom")),
      Throws(Undefined),
      Throws(SdkError("AUTHENTICATION_FAILED", "Invalid API key")) }

\* Date.now() - startTime
Durations == {0, 7}

InitForecast ==
    /\ fpc = "ready"
    /\ fRequest \in ForecastRequests
    /\ \E state \in ClientStates :
          /\ clientInstance = state[1]
          /\ initializationError = state[2]
    /\ fCalls = <<>>
    /\ fAwaited = Undefined
    /\ fResult = Undefined
    /\ initializationAttempted = (clientInstance # Null \/ initializationError # Null)
    /\ apiKey = Undefined
    /\ constructed = 0
    /\ cLog = <<>>
    /\ NormIdle
    /\ ValidateIdle
    /\ ClassifyIdle
    /\ ShapeIdle

\* forecast runs up to its await, or to its return when it awaits nothing
ForecastCall ==
    /\ fpc = "ready"
    /\ LET step == forecastCall(fRequest, clientInstance, initializationError)
       IN  IF step.awaits
           THEN /\ fpc' = "awaiting"
                /\ fCalls' = Append(fCalls, [operation |-> step.operation, args |-> step.args])
                /\ fAwaited' = step
                /\ fResult' = fResult
           ELSE /\ fpc' = "done"
                /\ fResult' = step.envelope
                /\ UNCHANGED <<fCalls, fAwaited>>
    /\ UNCHANGED <<fRequest, clientInstance, initializationError, nvars, vvars, evars, svars, cvars>>

\* the awaited operation settles and forecast runs to its return
ForecastResume ==
    /\ fpc = "awaiting"
    /\ \E settled \in Settlements, duration \in Durations :
          fResult' = forecastResume(fRequest, fAwaited, settled, duration).envelope
    /\ fpc' = "done"
    /\ UNCHANGED <<fRequest, clientInstance, initializationError, fCalls, fAwaited, nvars, vvars, evars, svars, cvars>>

NextForecast == ForecastCall \/ ForecastResume

SpecForecast == InitForecast /\ [][NextForecast]_vars

----------------------------------------------------------------------------
(* The error classifier: transformError, isRetryableError and isAuthError,
   called on one value *)

\* messages of Error instances
ErrorMessages ==
    { <<>>,
      <<"c", "o", "n", "n", "e", "c", "t", " ", "E", "C", "O", "N", "N", "R", "E", "F", "U",
        "S", "E", "D", " ", "1", "2", "7", ".", "0", ".", "0", ".", "1", ":", "4", "4", "3">>,
      <<"r", "e", "a", "d", " ", "E", "C", "O", "N", "N", "R", "E", "S", "E", "T">>,
      <<"E", "H", "O", "S", "T", "U", "N", "R", "E", "A", "C", "H">>,
      <<"E", "N", "E", "T", "U", "N", "R", "E", "A", "C", "H">>,
      <<"g", "e", "t", "a", "d", "d", "r", "i", "n", "f", "o", " ", "E", "N", "O", "T", "F",
        "O", "U", "N", "D", " ", "a", "p", "i">>,
      <<"C", "o", "n", "n", "e", "c", "t", "i", "o", "n", " ", "l", "o", "s", "t">>,
      <<"R", "e", "q", "u", "e", "s", "t", " ", "t", "i", "m", "e", "d", " ", "o", "u", "t">>,
      <<"T", "I", "M", "E", "O", "U", "T">>,
      <<"D", "e", "a", "d", "l", "i", "n", "e", " ", "e", "x", "c", "e", "e", "d", "e", "d">>,
      <<"c", "o", "n", "n", "e", "c", "t", " ", "t", "i", "m", "e", "o", "u", "t">>,
      <<"t", "i", "m", "e", "o", "u", "t", " ", "o", "n", " ", "c", "o", "n", "n", "e", "c",
        "t">>,
      <<"x", " ", "i", "s", " ", "n", "o", "t", " ", "a", " ", "f", "u", "n", "c", "t", "i",
        "o", "n">>,
      <<"b", "o", "o", "m">> }

JsErrors ==
    { JsError(name, message) : name \in {"Error", "TypeError", "RangeError"},
                               message \in ErrorMessages }

\* codes the SDK reports, some in the tables of errors.ts and some not
SdkCodes ==
    SuggestionCodes \cup RetryableCodes \cup AuthCodes
        \cup {"VALIDATION_ERROR", "INTERNAL_SERVER_ERROR", "CUSTOM_CODE", "timeout_error", ""}

\* non-Error objects carrying a string error_code
SdkErrors ==
    { Obj([error_code |-> Text(code)]) : code \in SdkCodes }
    \cup { Obj([error_code |-> Text(code), message |-> Text(m)]) :
             code \in SdkCodes, m \in {"", "Request timed out"} }
    \cup { Obj([error_code |-> Text(code), message |-> Text("failed"), detail |-> Text(d)]) :
             code \in SdkCodes, d \in {"", "row 3"} }

\* values that are neither
OtherErrors ==
    { Null, Undefined, Int1(0), Int1(5), Bool(TRUE), Bool(FALSE), Arr(<<>>),
      Text("plain string"), Text(""), Text("TIMEOUT_ERROR"), Str(<<"t", "i", "m", "e", "o", "u", "t">>),
      Obj([message |-> Text("Request timed out")]),
      Obj([error_code |-> Int1(42)]),
      Obj([error_code |-> Null, message |-> Text("failed")]) }

ErrorValues == JsErrors \cup SdkErrors \cup OtherErrors

Contexts ==
    { Context(<<Text("forecast")>>, NoField),
      Context(<<Chronos2, Text(" forecast")>>, "horizon") }

InitClassify ==
    /\ epc = "ready"
    /\ eError \in ErrorValues
    /\ eContext \in Contexts
    /\ eResponse = Undefined
    /\ eRetryable = FALSE
    /\ eAuth = FALSE
    /\ NormIdle
    /\ ValidateIdle
    /\ ForecastIdle
    /\ ShapeIdle
    /\ ClientIdle

Classify ==
    /\ epc = "ready"
    /\ eResponse' = transformError(eError, eContext)
    /\ eRetryable' = isRetryableError(eError)
    /\ eAuth' = isAuthError(eError)
    /\ epc' = "classified"
    /\ UNCHANGED <<eError, eContext, nvars, vvars, fvars, svars, cvars>>

NextClassify == Classify

SpecClassify == InitClassify /\ [][NextClassify]_vars

----------------------------------------------------------------------------
(* The shape inspector, called on one value *)

ShapeInputs ==
    XArrays \cup RootValues
        \cup { Arr(<<Arr(<<Arr(<<Arr(<<Int1(1), Int1(2)>>)>>)>>)>>),
               Arr(<<Arr(<<Arr(<<Arr(<<>>)>>)>>)>>),
               Arr(<<Arr(<<>>), Arr(<<Int1(1)>>)>>),
               Arr(<<Int1(1), Arr(<<>>)>>),
               Obj(<<>>), Str(<<"[", "]">>) }

InitShape ==
    /\ spc = "ready"
    /\ sArray \in ShapeInputs
    /\ sShape = <<>>
    /\ NormIdle
    /\ ValidateIdle
    /\ ForecastIdle
    /\ ClassifyIdle
    /\ ClientIdle

Measure ==
    /\ spc = "ready"
    /\ sShape' = getArrayShape(sArray)
    /\ spc' = "measured"
    /\ UNCHANGED <<sArray, nvars, vvars, fvars, evars, cvars>>

NextShape == Measure

SpecShape == InitShape /\ [][NextShape]_vars

----------------------------------------------------------------------------
(* The client singleton, under any sequence of calls to its functions and
   any change of the environment in between *)

\* how many calls a sequence holds
MaxCalls == 4

\* values of process.env.FAIM_API_KEY
ApiKeys == {Undefined, Str(<<>>), Str(<<" ">>), Str(<<"k">>), Str(<<" ", "k", "2">>)}

\* how new FaimClient(...) ends
Constructions ==
    { Resolves(Undefined),
      Throws(JsError("TypeError", <<"I", "n", "v", "a", "l", "i", "d", " ", "U", "R", "L">>)),
      Throws(Str(<<"b", "o", "o", "m">>)) }

\* a call and what it did: the function, what it returned or threw,
\* whether it attempted initialization, and the module state and the
\* number of clients constructed after it
Called(op, step, count) ==
    [op |-> op, outcome |-> step.outcome, fresh |-> step.fresh, instance |-> step.instance,
     attempted |-> step.attempted, initError |-> step.initError, constructed |-> count]

InitClient ==
    /\ clientInstance = Null
    /\ initializationAttempted = FALSE
    /\ initializationError = Null
    /\ apiKey \in ApiKeys
    /\ constructed = 0
    /\ cLog = <<>>
    /\ fpc = "idle"
    /\ fRequest = Undefined
    /\ fCalls = <<>>
    /\ fAwaited = Undefined
    /\ fResult = Undefined
    /\ NormIdle
    /\ ValidateIdle
    /\ ClassifyIdle
    /\ ShapeIdle

\* the environment variable is set, changed or removed
SetApiKey ==
    /\ \E key \in ApiKeys \ {apiKey} : apiKey' = key
    /\ UNCHANGED <<clientInstance, initializationAttempted, initializationError, constructed,
                   cLog, fpc, fRequest, fCalls, fAwaited, fResult, nvars, vvars, evars, svars>>

InitializeClient ==
    /\ Len(cLog) < MaxCalls
    /\ \E construction \in Constructions :
          LET step == initializeClient(clientInstance, initializationAttempted,
                                       initializationError, apiKey, construction,
                                       constructed + 1)
              count == IF step.built THEN constructed + 1 ELSE constructed
          IN  /\ clientInstance' = step.instance
              /\ initializationAttempted' = step.attempted
              /\ initializationError' = step.initError
              /\ constructed' = count
              /\ cLog' = Append(cLog, Called("initializeClient", step, count))
    /\ UNCHANGED <<apiKey, fpc, fRequest, fCalls, fAwaited, fResult, nvars, vvars, evars, svars>>

GetClient ==
    /\ Len(cLog) < MaxCalls
    /\ LET step == ClientStep(clientInstance, initializationAttempted, initializationError,
                              getClient(clientInstance, initializationError), FALSE, FALSE)
       IN  cLog' = Append(cLog, Called("getClient", step, constructed))
    /\ UNCHANGED <<clientInstance, initializationAttempted, initializationError, apiKey,
                   constructed, fpc, fRequest, fCalls, fAwaited, fResult, nvars, vvars, evars,
                   svars>>

ResetClient ==
    /\ Len(cLog) < MaxCalls
    /\ clientInstance' = resetClient.instance
    /\ initializationAttempted' = resetClient.attempted
    /\ initializationError' = resetClient.initError
    /\ cLog' = Append(cLog, Called("resetClient", resetClient, constructed))
    /\ UNCHANGED <<apiKey, constructed, fpc, fRequest, fCalls, fAwaited, fResult, nvars, vvars,
                   evars, svars>>

IsClientReady ==
    /\ Len(cLog) < MaxCalls
    /\ LET step == ClientStep(clientInstance, initializationAttempted, initializationError,
                              Bool(isClientReady(clientInstance, initializationError)),
                              FALSE, FALSE)
       IN  cLog' = Append(cLog, Called("isClientReady", step, constructed))
    /\ UNCHANGED <<clientInstance, initializationAttempted, initializationError, apiKey,
                   constructed, fpc, fRequest, fCalls, fAwaited, fResult, nvars, vvars, evars,
                   svars>>

NextClient == SetApiKey \/ InitializeClient \/ GetClient \/ ResetClient \/ IsClientReady

SpecClient == InitClient /\ [][NextClient]_vars

----------------------------------------------------------------------------
(* Shapes of the inputs the normalizer claims speak about *)

\* x is a non-empty array of numbers
IsRank1(x) ==
    /\ IsArray(x) /\ Len(x.v) >= 1
    /\ \A i \in 1..Len(x.v) : IsNumber(x.v[i])

\* x is a non-empty array of rank-1 arrays (rows may differ in length)
IsRank2(x) ==
    /\ IsArray(x) /\ Len(x.v) >= 1
    /\ \A i \in 1..Len(x.v) : IsRank1(x.v[i])

\* x is a rank-2 array of shape [r, c]: every row has the same length
IsMatrix(x) ==
    /\ IsRank2(x)
    /\ \A i \in 1..Len(x.v) : Len(x.v[i].v) = Len(x.v[1].v)

\* x is a non-empty array of rank-2 arrays
IsRank3(x) ==
    /\ IsArray(x) /\ Len(x.v) >= 1
    /\ \A i \in 1..Len(x.v) : IsRank2(x.v[i])

Rows(x) == Len(x.v)
Cols(x) == Len(x.v[1].v)

\* the (model, isMultivariate) arguments select the multivariate reading:
\* model chronos2 (also by default) with the flag true
MultivariateArgs(m, f) ==
    /\ m \in {Chronos2, Undefined}
    /\ f = Bool(TRUE)

----------------------------------------------------------------------------
(* C1: a rank-2 input of shape [r, c], under every (model, flag) other than
   (chronos2, true), is returned as the single-batch tensor of shape
   [1, r*c, 1] whose sequence is the row-major concatenation of the rows,
   each scalar wrapped as a one-element vector. *)
C1_Rank2Flattened ==
    (npc # "ready" /\ IsMatrix(nInput) /\ ~MultivariateArgs(nModel, nFlag)) =>
        /\ IsArray(nOut) /\ Len(nOut.v) = 1
        /\ IsArray(nOut.v[1]) /\ Len(nOut.v[1].v) = Rows(nInput) * Cols(nInput)
        /\ \A i \in 1..Rows(nInput), j \in 1..Cols(nInput) :
              nOut.v[1].v[(i - 1) * Cols(nInput) + j] = Arr(<<nInput.v[i].v[j]>>)
        /\ getArrayShape(nOut) = <<1, Rows(nInput) * Cols(nInput), 1>>

C1_Witness ==
    /\ npc = "normalized"
    /\ nInput = Arr(<<Arr(<<Int1(1), Int1(2), Int1(3)>>), Arr(<<Int1(4), Int1(5), Int1(6)>>)>>)
    /\ nModel = TiRex /\ nFlag = Bool(TRUE)
    /\ nOut = Arr(<<Arr(<<Arr(<<Int1(1)>>), Arr(<<Int1(2)>>), Arr(<<Int1(3)>>),
                          Arr(<<Int1(4)>>), Arr(<<Int1(5)>>), Arr(<<Int1(6)>>)>>)>>)

(* C2: a rank-2 input of shape [r, c] under (chronos2, true) is returned as
   the tensor of shape [1, r, c] whose only batch entry is the input's rows,
   unchanged. *)
C2_Rank2Multivariate ==
    (npc # "ready" /\ IsMatrix(nInput) /\ MultivariateArgs(nModel, nFlag)) =>
        /\ IsArray(nOut) /\ Len(nOut.v) = 1
        /\ nOut.v[1] = nInput
        /\ getArrayShape(nOut) = <<1, Rows(nInput), Cols(nInput)>>

C2_Witness ==
    /\ npc = "normalized"
    /\ nInput = Arr(<<Arr(<<Int1(1), Int1(2)>>), Arr(<<Int1(3), Int1(4)>>), Arr(<<Int1(5), Int1(6)>>)>>)
    /\ nModel = Chronos2 /\ nFlag = Bool(TRUE)
    /\ getArrayShape(nOut) = <<1, 3, 2>>

(* C3: a rank-1 input of n >= 1 numbers is returned as the tensor of shape
   [1, n, 1] whose i-th sequence entry is [x[i]], whatever the model and the
   flag. *)
C3_Rank1Wrapped ==
    (npc # "ready" /\ IsRank1(nInput)) =>
        /\ IsArray(nOut) /\ Len(nOut.v) = 1
        /\ IsArray(nOut.v[1]) /\ Len(nOut.v[1].v) = Len(nInput.v)
        /\ \A i \in 1..Len(nInput.v) : nOut.v[1].v[i] = Arr(<<nInput.v[i]>>)
        /\ getArrayShape(nOut) = <<1, Len(nInput.v), 1>>

C3_Witness ==
    /\ npc = "normalized"
    /\ nInput = Arr(<<Int1(1), Int1(2), Int1(3)>>)
    /\ nModel = Chronos2 /\ nFlag = Bool(TRUE)
    /\ nOut = Arr(<<Arr(<<Arr(<<Int1(1)>>), Arr(<<Int1(2)>>), Arr(<<Int1(3)>>)>>)>>)

(* C4: a rank-3 input is returned equal to itself, whatever the model and
   the flag. *)
C4_Rank3Identity ==
    (npc # "ready" /\ IsRank3(nInput)) => nOut = nInput

C4_Witness ==
    /\ npc = "normalized"
    /\ nInput = Arr(<<Arr(<<Arr(<<Int1(1), Int1(2)>>), Arr(<<Int1(3), Int1(4)>>)>>)>>)
    /\ nModel = Chronos2 /\ nFlag = Bool(TRUE)
    /\ nOut = nInput

(* C5: normalizeInput is idempotent: normalizing the output of a call on a
   rank-1, rank-2 or rank-3 input, under any model and flag, gives that
   output again. *)
C5_Idempotent ==
    (npc = "renormalized" /\ (IsRank1(nInput) \/ IsRank2(nInput) \/ IsRank3(nInput))) =>
        nOut2 = nOut

C5_Witness ==
    /\ npc = "renormalized"
    /\ nInput = Arr(<<Arr(<<Int1(1), Int1(2), Int1(3)>>), Arr(<<Int1(4), Int1(5), Int1(6)>>)>>)
    /\ nModel = Chronos2 /\ nFlag = Bool(FALSE)
    /\ nOut # nInput
    /\ nOut2 = nOut

----------------------------------------------------------------------------
(* What the request's fields are, stated on the request alone *)

\* the request is a non-null object
IsRequestObject(req) == req.t \in {"object", "array"}

Absent(v) == v \in {Undefined, Null}

ModelInViolation(req) ==
    ~Absent(Field(req, "model")) /\ Field(req, "model") \notin {Chronos2, TiRex}

HorizonFinite(req) == Field(req, "horizon").t = "number" /\ Field(req, "horizon").v[2] > 0

\* n/d <= 0, and n/d > 1024
HorizonNotPositive(req) == HorizonFinite(req) /\ Field(req, "horizon").v[1] <= 0
HorizonTooLarge(req) ==
    HorizonFinite(req) /\ Field(req, "horizon").v[1] > 1024 * Field(req, "horizon").v[2]

HorizonInViolation(req) ==
    \/ Absent(Field(req, "horizon"))
    \/ ~HorizonFinite(req)
    \/ HorizonNotPositive(req)
    \/ HorizonTooLarge(req)

\* the error code the horizon checks give, in their order presence, type, range
HorizonCode(req) ==
    IF Absent(Field(req, "horizon")) THEN "MISSING_REQUIRED_FIELD"
    ELSE IF ~HorizonFinite(req) THEN "INVALID_PARAMETER"
    ELSE "INVALID_VALUE_RANGE"

XInViolation(req) == validateX(req) # Null

OutputTypeInViolation(req) ==
    ~Absent(Field(req, "output_type")) /\ Field(req, "output_type") \notin {Point, Quantiles}

QuantileOk(q) == q.t = "number" /\ q.v[2] > 0 /\ q.v[1] >= 0 /\ q.v[1] <= q.v[2]

QuantilesInViolation(req) ==
    LET q == Field(req, "quantiles")
    IN  /\ ~Absent(q)
        /\ \/ ~IsArray(q)
           \/ Len(q.v) = 0
           \/ \E i \in 1..Len(q.v) : ~QuantileOk(q.v[i])

\* the fields in the order of the checks, and those in violation
FieldOrder == <<"root", "model", "horizon", "x", "output_type", "quantiles">>

InViolation(req, field) ==
    CASE field = "root" -> ~IsRequestObject(req)
      [] field = "model" -> ModelInViolation(req)
      [] field = "horizon" -> HorizonInViolation(req)
      [] field = "x" -> XInViolation(req)
      [] field = "output_type" -> OutputTypeInViolation(req)
      [] field = "quantiles" -> QuantilesInViolation(req)

Violations(req) ==
    IF ~IsRequestObject(req) THEN {1}
    ELSE {k \in 2..Len(FieldOrder) : InViolation(req, FieldOrder[k])}

ErrorIs(result, code, field) ==
    /\ result # Null
    /\ result.v.error_code = code
    /\ result.v.field = field

(* C6: the validator reports exactly one error, that of the first failing
   check in the order root, model, horizon (presence, type, range), x
   (presence, structure), output_type, quantiles; with several fields in
   violation the code and field reported are those of the earliest field;
   a request with no field in violation is reported valid. *)
C6_FirstFailingCheck ==
    vpc = "validated" =>
        LET violations == Violations(request)
            earliest == FieldOrder[CHOOSE k \in violations : \A j \in violations : k <= j]
        IN  IF violations = {} THEN vResult = Null
            ELSE /\ vResult # Null
                 /\ vResult.v.field = earliest
                 /\ vResult.v.error_code =
                      CASE earliest = "root" -> "INVALID_REQUEST"
                        [] earliest = "model" -> "INVALID_PARAMETER"
                        [] earliest = "horizon" -> HorizonCode(request)
                        [] earliest = "x" ->
                             IF ~Truthy(Field(request, "x")) THEN "MISSING_REQUIRED_FIELD"
                             ELSE validateX(request).v.error_code
                        [] earliest = "output_type" -> "INVALID_PARAMETER"
                        [] earliest = "quantiles" -> validateQuantiles(request).v.error_code

\* horizon, x and output_type are all in violation; the horizon is reported
C6_Witness ==
    /\ vpc = "validated"
    /\ Violations(request) = {3, 4, 5}
    /\ Field(request, "horizon") = Int1(0)
    /\ Field(request, "x") = Undefined
    /\ Field(request, "output_type") = Int1(1)
    /\ ErrorIs(vResult, "INVALID_VALUE_RANGE", "horizon")

(* C7 as stated: a request object whose horizon is absent (undefined or
   null) is rejected with MISSING_REQUIRED_FIELD on horizon, whether or not x
   is present; one with a valid horizon whose x is absent is rejected with
   MISSING_REQUIRED_FIELD on x. *)
C7_MissingFieldAsStated ==
    (vpc = "validated" /\ IsRequestObject(request)) =>
        /\ Absent(Field(request, "horizon")) =>
               ErrorIs(vResult, "MISSING_REQUIRED_FIELD", "horizon")
        /\ (~HorizonInViolation(request) /\ Absent(Field(request, "x"))) =>
               ErrorIs(vResult, "MISSING_REQUIRED_FIELD", "x")

(* C7, amended: a request object whose model is absent or valid and whose
   horizon is absent (undefined or null) is rejected with
   MISSING_REQUIRED_FIELD on horizon, whether or not x is present; one whose
   model is absent or valid, whose horizon is valid and whose x is absent is
   rejected with MISSING_REQUIRED_FIELD on x.  Whatever the model, neither
   request is reported valid. *)
C7_MissingField ==
    (vpc = "validated" /\ IsRequestObject(request)) =>
        /\ (~ModelInViolation(request) /\ Absent(Field(request, "horizon"))) =>
               ErrorIs(vResult, "MISSING_REQUIRED_FIELD", "horizon")
        /\ (~ModelInViolation(request) /\ ~HorizonInViolation(request)
              /\ Absent(Field(request, "x"))) =>
               ErrorIs(vResult, "MISSING_REQUIRED_FIELD", "x")
        /\ (Absent(Field(request, "horizon")) \/ Absent(Field(request, "x"))) =>
               vResult # Null

\* the horizon is absent and x is absent too: the horizon is reported
C7_Witness ==
    /\ vpc = "validated"
    /\ Field(request, "model") = Chronos2
    /\ Field(request, "horizon") = Undefined
    /\ Field(request, "x") = Undefined
    /\ ErrorIs(vResult, "MISSING_REQUIRED_FIELD", "horizon")

(* C8 as stated: for a present horizon the validator returns
   INVALID_PARAMETER on horizon when it is not a finite number and
   INVALID_VALUE_RANGE on horizon when it is <= 0 or exceeds 1024; the
   horizons 1 and 1024 are accepted and 1025 is rejected. *)
C8_HorizonAsStated ==
    (vpc = "validated" /\ IsRequestObject(request) /\ ~Absent(Field(request, "horizon"))) =>
        /\ ~HorizonFinite(request) => ErrorIs(vResult, "INVALID_PARAMETER", "horizon")
        /\ HorizonNotPositive(request) => ErrorIs(vResult, "INVALID_VALUE_RANGE", "horizon")
        /\ HorizonTooLarge(request) => ErrorIs(vResult, "INVALID_VALUE_RANGE", "horizon")
        /\ Field(request, "horizon") \in {Int1(1), Int1(1024)} =>
               (vResult = Null \/ vResult.v.field # "horizon")
        /\ Field(request, "horizon") = Int1(1025) => vResult # Null

(* C8, amended: for a request object whose model is absent or valid and
   whose horizon is present, the validator returns INVALID_PARAMETER on
   horizon when the horizon is not a finite number and INVALID_VALUE_RANGE on
   horizon when it is <= 0 or exceeds 1024.  Whatever the model, the horizons
   1 and 1024 draw no horizon error, a request with such a horizon and no
   other field in violation is accepted, and the horizon 1025 is rejected. *)
C8_Horizon ==
    (vpc = "validated" /\ IsRequestObject(request) /\ ~Absent(Field(request, "horizon"))) =>
        /\ (~ModelInViolation(request) /\ ~HorizonFinite(request)) =>
               ErrorIs(vResult, "INVALID_PARAMETER", "horizon")
        /\ (~ModelInViolation(request) /\ HorizonNotPositive(request)) =>
               ErrorIs(vResult, "INVALID_VALUE_RANGE", "horizon")
        /\ (~ModelInViolation(request) /\ HorizonTooLarge(request)) =>
               ErrorIs(vResult, "INVALID_VALUE_RANGE", "horizon")
        /\ Field(request, "horizon") \in {Int1(1), Int1(1024)} =>
               /\ vResult = Null \/ vResult.v.field # "horizon"
               /\ (~ModelInViolation(request) /\ ~XInViolation(request)
                     /\ ~OutputTypeInViolation(request) /\ ~QuantilesInViolation(request)) =>
                      vResult = Null
        /\ Field(request, "horizon") = Int1(1025) => vResult # Null

\* the horizon 1025 is rejected as out of range, next to a valid x
C8_Witness ==
    /\ vpc = "validated"
    /\ Field(request, "model") = Undefined
    /\ Field(request, "horizon") = Int1(1025)
    /\ Field(request, "x") = Arr(<<Int1(1), Int1(2)>>)
    /\ ErrorIs(vResult, "INVALID_VALUE_RANGE", "horizon")

----------------------------------------------------------------------------
(* Defects of an array x *)

\* the array the structure check sees: x itself, or what a string x parses to
XData(req) ==
    IF Field(req, "x").t = "string" THEN JSONParse(Field(req, "x").v) ELSE Field(req, "x")

SetMax(S) == CHOOSE m \in S : \A k \in S : k <= m

\* the nesting depth of a value: 0 for a scalar, 1 for a flat or empty array
RECURSIVE Depth(_)
Depth(v) ==
    IF ~IsArray(v) THEN 0
    ELSE IF Len(v.v) = 0 THEN 1
    ELSE 1 + SetMax({Depth(v.v[i]) : i \in 1..Len(v.v)})

\* some array inside v (or v) has elements that differ in nesting depth
RECURSIVE HasInconsistentRank(_)
HasInconsistentRank(v) ==
    /\ IsArray(v)
    /\ \/ \E i, j \in 1..Len(v.v) : Depth(v.v[i]) # Depth(v.v[j])
       \/ \E i \in 1..Len(v.v) : HasInconsistentRank(v.v[i])

\* some array inside v is empty
RECURSIVE HasEmptyRow(_)
HasEmptyRow(v) ==
    /\ IsArray(v)
    /\ \E i \in 1..Len(v.v) :
          IsArray(v.v[i]) /\ (Len(v.v[i].v) = 0 \/ HasEmptyRow(v.v[i]))

\* some leaf of v is not a finite number
RECURSIVE HasBadLeaf(_)
HasBadLeaf(v) ==
    IF IsArray(v) THEN \E i \in 1..Len(v.v) : HasBadLeaf(v.v[i])
    ELSE ~(v.t = "number" /\ v.v[2] > 0)

(* C9: every x that contains a row of inconsistent rank, an empty row, or a
   non-numeric or non-finite leaf is rejected: no such x is reported valid
   (the claim adds that the rejection is INVALID_PARAMETER on x). *)
C9_DefectiveXRejected ==
    (vpc = "validated" /\ IsRequestObject(request) /\ IsArray(XData(request))
       /\ (\/ HasInconsistentRank(XData(request))
           \/ HasEmptyRow(XData(request))
           \/ HasBadLeaf(XData(request)))) =>
        vResult # Null

(* C10: when x is a list of arrays the validator accepts it only if all
   sibling arrays at the same nesting depth have equal, non-zero length. *)
C10_RaggedRejected ==
    (vpc = "validated" /\ vResult = Null
       /\ IsArray(XData(request)) /\ IsArray(At(XData(request), 0))) =>
        \A i \in 1..Len(XData(request).v) :
            /\ IsArray(XData(request).v[i])
            /\ Len(XData(request).v[i].v) > 0
            /\ Len(XData(request).v[i].v) = Len(XData(request).v[1].v)

----------------------------------------------------------------------------
(* The quantiles check *)

\* the quantiles at the 1-based positions that are no finite number in [0,1]
OffendingQuantiles(req) ==
    {i \in 1..Len(Field(req, "quantiles").v) : ~QuantileOk(Field(req, "quantiles").v[i])}

\* what C11 says of a quantiles array: empty is INVALID_VALUE_RANGE; else the
\* first offending element alone is reported, INVALID_PARAMETER when it is no
\* finite number and INVALID_VALUE_RANGE when it is outside [0,1]; an array
\* of values in [0,1], 0 and 1 included, draws no quantiles error
QuantilesReported(req, result) ==
    LET q == Field(req, "quantiles")
        offending == OffendingQuantiles(req)
        first == CHOOSE i \in offending : \A k \in offending : i <= k
    IN  IF Len(q.v) = 0
        THEN ErrorIs(result, "INVALID_VALUE_RANGE", "quantiles")
             /\ result.v.message.index = NoIndex
        ELSE IF offending # {}
        THEN /\ ErrorIs(result, IF IsFinite(q.v[first]) THEN "INVALID_VALUE_RANGE"
                                                        ELSE "INVALID_PARAMETER",
                        "quantiles")
             /\ result.v.message.index = <<first - 1>>
        ELSE result = Null \/ result.v.field # "quantiles"

(* C11 as stated: for a present quantiles array the validator rejects an
   empty array with INVALID_VALUE_RANGE on quantiles and otherwise reports
   only the first offending element, INVALID_PARAMETER when it is not a finite
   number and INVALID_VALUE_RANGE when it lies outside [0,1]; 0 and 1 are
   accepted. *)
C11_QuantilesAsStated ==
    (vpc = "validated" /\ IsRequestObject(request) /\ IsArray(Field(request, "quantiles"))) =>
        QuantilesReported(request, vResult)

(* C11, amended: for a request whose model, horizon, x and output_type pass
   their checks and whose quantiles is an array, the validator rejects an
   empty array with INVALID_VALUE_RANGE on quantiles and otherwise reports
   only the first offending element, INVALID_PARAMETER when it is not a finite
   number and INVALID_VALUE_RANGE when it lies outside [0,1]; an array of
   values in [0,1], 0 and 1 included, is accepted. *)
C11_Quantiles ==
    (vpc = "validated" /\ IsRequestObject(request) /\ IsArray(Field(request, "quantiles"))
       /\ ~ModelInViolation(request) /\ ~HorizonInViolation(request)
       /\ ~XInViolation(request) /\ ~OutputTypeInViolation(request)) =>
        /\ QuantilesReported(request, vResult)
        /\ OffendingQuantiles(request) = {} /\ Len(Field(request, "quantiles").v) > 0 =>
               vResult = Null

\* [0.1, 1.5, 0.9]: the element at index 1 is reported as out of range
C11_Witness ==
    /\ vpc = "validated"
    /\ Field(request, "quantiles") = Arr(<<Num(1, 10), Num(3, 2), Num(9, 10)>>)
    /\ ErrorIs(vResult, "INVALID_VALUE_RANGE", "quantiles")
    /\ vResult.v.message.index = <<1>>

\* [0, 0.5, 1] is accepted
C11_WitnessBoundary ==
    /\ vpc = "validated"
    /\ Field(request, "quantiles") = Arr(<<Int1(0), Num(1, 2), Int1(1)>>)
    /\ vResult = Null

----------------------------------------------------------------------------
(* The model check *)

\* no field other than the model is in violation
OtherFieldsValid(req) ==
    /\ ~HorizonInViolation(req) /\ ~XInViolation(req)
    /\ ~OutputTypeInViolation(req) /\ ~QuantilesInViolation(req)

(* C12: the model is optional: a request object with no model (undefined or
   null) whose other fields are valid is accepted; a present model is
   accepted only if it is the string chronos2 or tirex, with which a request
   whose other fields are valid is accepted; any other present value is
   rejected with INVALID_PARAMETER on field model. *)
C12_ModelOptional ==
    (vpc = "validated" /\ IsRequestObject(request)) =>
        LET model == Field(request, "model")
        IN  /\ (Absent(model) /\ OtherFieldsValid(request)) => vResult = Null
            /\ (model \in {Chronos2, TiRex} /\ OtherFieldsValid(request)) => vResult = Null
            /\ (~Absent(model) /\ model \notin {Chronos2, TiRex}) =>
                   ErrorIs(vResult, "INVALID_PARAMETER", "model")
            /\ vResult = Null => (Absent(model) \/ model \in {Chronos2, TiRex})

\* a request with no model and valid fields is accepted
C12_Witness ==
    /\ vpc = "validated"
    /\ Field(request, "model") = Undefined
    /\ Field(request, "horizon") = Int1(1)
    /\ Field(request, "x") = Arr(<<Int1(1), Int1(2)>>)
    /\ vResult = Null

\* an unknown model name is rejected, whatever the other fields
C12_WitnessRejected ==
    /\ vpc = "validated"
    /\ Field(request, "model") = Str(<<"g", "p", "t">>)
    /\ Field(request, "horizon") = Undefined
    /\ ErrorIs(vResult, "INVALID_PARAMETER", "model")

----------------------------------------------------------------------------
(* x as a JSON string *)

\* the decimal digits of a natural number
RECURSIVE DecimalDigits(_)
DecimalDigits(n) ==
    IF n < 10 THEN <<Digits[n + 1]>> ELSE Append(DecimalDigits(n \div 10), Digits[(n % 10) + 1])

\* the JSON text of nested arrays of natural numbers, written without white
\* space; "?" stands for the text of any other leaf
RECURSIVE JSONText(_)
JSONText(v) ==
    IF IsArray(v)
    THEN <<"[">>
         \o ConcatAll([i \in 1..Len(v.v) |->
                          IF i = 1 THEN JSONText(v.v[i]) ELSE <<",">> \o JSONText(v.v[i])])
         \o <<"]">>
    ELSE IF IsFinite(v) /\ v.v[2] = 1 /\ v.v[1] >= 0 THEN DecimalDigits(v.v[1])
    ELSE <<"?">>

\* arrays whose JSON text is among the explored strings, and others
TextArrays ==
    {a \in XSmallValues : IsArray(a)}
    \cup {Arr(<<Arr(<<Int1(1), Int1(2)>>), Arr(<<Int1(10), Int1(4)>>)>>), Arr(<<Int1(12)>>)}

\* the arrays a string is the JSON text of
ArraysWritten(chars) == {a \in TextArrays : JSONText(a) = chars}

\* strings that are no JSON text: a trailing comma, a missing or a surplus
\* bracket, a leading zero, a bare word
MalformedJSON ==
    { Str(<<"[", "1", ",", "]">>), Str(<<"[", "1", ",", "2">>), Str(<<"[", "1", "]", "]">>),
      Str(<<"[", "0", "1", "]">>), Str(<<"o", "o", "p", "s">>), Str(<<>>) }

\* the request with x replaced
WithX(req, x) == Obj([req.v EXCEPT !.x = x])

\* a parse failure as C14 has it reported
ParseFailureReported(result) ==
    /\ ErrorIs(result, "INVALID_PARAMETER", "x")
    /\ result.v.details.prefix = "Failed to parse x: "
    /\ result.v.details.arg.t = "throw"

(* C14 as stated: an x that is a string is parsed as JSON before the array
   checks: a string that is the JSON text of an array gets the result that
   array gets, and a string that fails to parse is reported as
   INVALID_PARAMETER on field x with the parser's message in details. *)
C14_JsonStringAsStated ==
    (vpc = "validated" /\ IsRequestObject(request) /\ Typeof(Field(request, "x")) = "string") =>
        /\ \A a \in ArraysWritten(Field(request, "x").v) :
               vResult = validateForecastRequest(WithX(request, a))
        /\ Field(request, "x") \in MalformedJSON => ParseFailureReported(vResult)

(* C14, amended: an x that is a non-empty string is parsed as JSON before
   the array checks: a string that is the JSON text of an array gets the
   result that array gets (so the text of a valid rank-1/2/3 array of numbers
   is accepted when the other fields are valid), and, when the model and the
   horizon pass their checks, a non-empty string that fails to parse is
   reported as INVALID_PARAMETER on field x with the parser's message in
   details; the empty string is reported as a missing x. *)
C14_JsonString ==
    (vpc = "validated" /\ IsRequestObject(request) /\ Typeof(Field(request, "x")) = "string") =>
        LET x == Field(request, "x")
            early == ModelInViolation(request) \/ HorizonInViolation(request)
        IN  /\ \A a \in ArraysWritten(x.v) :
                   /\ vResult = validateForecastRequest(WithX(request, a))
                   /\ (~early /\ (IsRank1(a) \/ IsMatrix(a) \/ IsRank3(a))
                          /\ ~OutputTypeInViolation(request) /\ ~QuantilesInViolation(request)) =>
                          vResult = Null
            /\ (x \in MalformedJSON /\ x.v # <<>> /\ ~early) => ParseFailureReported(vResult)
            /\ (x.v = <<>> /\ ~early) => ErrorIs(vResult, "MISSING_REQUIRED_FIELD", "x")

\* the text "[[1,2],[10,4]]" is accepted as the matrix it writes
C14_Witness ==
    /\ vpc = "validated"
    /\ Field(request, "x").t = "string"
    /\ Arr(<<Arr(<<Int1(1), Int1(2)>>), Arr(<<Int1(10), Int1(4)>>)>>)
           \in ArraysWritten(Field(request, "x").v)
    /\ vResult = Null

\* the text "[[[1],[2]]]" is accepted as the rank-3 array it writes
C14_WitnessRank3 ==
    /\ vpc = "validated"
    /\ Field(request, "x").t = "string"
    /\ Arr(<<Arr(<<Arr(<<Int1(1)>>), Arr(<<Int1(2)>>)>>)>>) \in ArraysWritten(Field(request, "x").v)
    /\ vResult = Null

\* the text "[1,2" is reported as a parse failure
C14_WitnessMalformed ==
    /\ vpc = "validated"
    /\ Field(request, "x") = Str(<<"[", "1", ",", "2">>)
    /\ ParseFailureReported(vResult)

----------------------------------------------------------------------------
(* The tensor of an accepted request *)

\* a rank-3 array: every element of every element is an array whose
\* elements are finite numbers
IsFiniteTensor(v) ==
    /\ IsArray(v)
    /\ \A i \in 1..Len(v.v) :
          /\ IsArray(v.v[i])
          /\ \A j \in 1..Len(v.v[i].v) :
                /\ IsArray(v.v[i].v[j])
                /\ \A k \in 1..Len(v.v[i].v[j].v) : IsFinite(v.v[i].v[j].v[k])

(* C15: for every request the validator accepts, the tensor normalizeInput
   produces from its x has rank exactly 3 and every leaf of it is a finite
   number. *)
C15_AcceptedGivesFiniteTensor ==
    (vpc = "validated" /\ npc \in {"normalized", "threw"}) =>
        (npc = "normalized" /\ IsFiniteTensor(nOut))

(* C16 as stated: for every request the validator accepts, of any rank, the
   tensor normalizeInput returns has exactly one element on its outermost
   axis. *)
C16_BatchAlwaysOneAsStated ==
    (vpc = "validated" /\ npc = "normalized") => Len(nOut.v) = 1

(* C16, amended: for every request the validator accepts whose x is a list
   of numbers or a list whose first row holds numbers (rank 1 or 2), the
   tensor normalizeInput returns has exactly one element on its outermost
   axis; an x whose first row holds arrays (rank 3) is returned as it is, its
   outermost axis having as many elements as x has. *)
C16_BatchAxis ==
    (vpc = "validated" /\ npc = "normalized") =>
        IF IsArray(At(At(nInput, 0), 0))
        THEN nOut = nInput
        ELSE Len(nOut.v) = 1

\* an accepted matrix of 2 rows is flattened into one batch of 4 steps
C16_Witness ==
    /\ vpc = "validated"
    /\ npc = "normalized"
    /\ nInput = Arr(<<Arr(<<Int1(1), Int1(2)>>), Arr(<<Int1(1), Int1(2)>>)>>)
    /\ nFlag = Bool(FALSE)
    /\ Len(nOut.v) = 1
    /\ Len(nOut.v[1].v) = 4

\* an accepted rank-3 x of two series keeps its two series
C16_WitnessBatchOfTwo ==
    /\ vpc = "validated"
    /\ npc = "normalized"
    /\ IsRank3(nInput)
    /\ Len(nOut.v) = 2


----------------------------------------------------------------------------
(* forecast's result *)

\* r is {success: true, data}
IsSuccessEnvelope(r) ==
    /\ r.t = "object"
    /\ DOMAIN r.v = {"success", "data"}
    /\ r.v.success = Bool(TRUE)

\* r is {success: false, error} whose error carries an error_code and a message
IsFailureEnvelope(r) ==
    /\ r.t = "object"
    /\ DOMAIN r.v = {"success", "error"}
    /\ r.v.success = Bool(FALSE)
    /\ r.v.error.t = "object"
    /\ {"error_code", "message"} \subseteq DOMAIN r.v.error.v
    /\ r.v.error.v.error_code \in STRING
    /\ r.v.error.v.error_code # ""

\* C17: forecast never throws and never rejects: whatever the request, the
\* client's state and the way the awaited operation settles, what forecast
\* returns is a success envelope {success: true, data} or a failure envelope
\* {success: false, error} whose error carries an error_code and a message.
C17_AlwaysEnvelope ==
    fpc = "done" => IsSuccessEnvelope(fResult) \/ IsFailureEnvelope(fResult)

\* the awaited operation threw and forecast returned a failure envelope
C17_Witness ==
    /\ fpc = "done"
    /\ Len(fCalls) = 1
    /\ IsFailureEnvelope(fResult)
    /\ fResult.v.error.v.error_code = "NETWORK_ERROR"

\* forecast(null) returned a failure envelope
C17_WitnessNull ==
    /\ fpc = "done"
    /\ fRequest = Null
    /\ IsFailureEnvelope(fResult)

\* the client was never initialized and forecast returned a failure envelope
C17_WitnessNoClient ==
    /\ fpc = "done"
    /\ fRequest \notin RootValues
    /\ clientInstance = Null
    /\ fCalls = <<>>
    /\ IsFailureEnvelope(fResult)
    /\ fResult.v.error.v.error_code = "INTERNAL_ERROR"

\* forecast returned a success envelope
C17_WitnessSuccess ==
    /\ fpc = "done"
    /\ IsSuccessEnvelope(fResult)


\* r is a failure envelope whose error has the code and the field of err
CarriesError(r, err) ==
    /\ IsFailureEnvelope(r)
    /\ r.v.error.v.error_code = err.v.error_code
    /\ r.v.error.v.field = err.v.field

\* C13: a request whose output_type is present and is neither 'point' nor
\* 'quantiles' ('samples' included), its earlier fields being valid, is
\* rejected with INVALID_PARAMETER on field output_type, and forecast
\* returns that failure instead of a success envelope.
C13_OutputTypeRejected ==
    LET err == validateForecastRequest(fRequest)
    IN  fpc = "done" /\ ErrorIs(err, "INVALID_PARAMETER", "output_type")
            => CarriesError(fResult, err)

\* C18: the downstream operation is invoked only after the request passed
\* validation: for a request validateForecastRequest rejects, forecast
\* makes no downstream call and returns a failure envelope carrying that
\* validation error.
C18_ValidationPrecedesCall ==
    LET err == validateForecastRequest(fRequest)
    IN  err # Null
            => /\ fCalls = <<>>
               /\ fpc = "done" => CarriesError(fResult, err)

\* the x of the request, parsed when it is a JSON string
ForecastXData ==
    LET x == Field(fRequest, "x")
    IN  IF Typeof(x) = "string" THEN JSONParse(x.v) ELSE x

\* C19: the tensor handed to the downstream operation is
\* normalizeInput(x, model, is_multivariate) for the request's own model and
\* flag, and shape_info.input_shape of a success is that tensor's shape.
C19_TensorForRequest ==
    LET tensor == normalizeInput(ForecastXData, Field(fRequest, "model"),
                                 Field(fRequest, "is_multivariate"))
    IN  fCalls # <<>>
            => /\ fCalls[1].args.v.x = tensor
               /\ fpc = "done" /\ IsSuccessEnvelope(fResult)
                    => fResult.v.data.v.shape_info.v.input_shape = getArrayShape(tensor)

\* C20: for a valid request and an initialized client, forecast invokes one
\* downstream operation once: forecastTiRex when model is 'tirex',
\* forecastChronos2 when model is 'chronos2' or absent.
C20_ModelRouting ==
    /\ Len(fCalls) <= 1
    /\ fpc # "ready" /\ validateForecastRequest(fRequest) = Null
          /\ clientInstance # Null /\ initializationError = Null
            => /\ Len(fCalls) = 1
               /\ fCalls[1].operation =
                      IF Field(fRequest, "model") = TiRex THEN "forecastTiRex"
                      ELSE "forecastChronos2"


----------------------------------------------------------------------------
(* The error classifier's claims *)

\* the Error's message, or 'Unknown error' when it is empty, in lower case
LoweredMessage(error) ==
    ToLowerCase(IF error.v.message.v = <<>>
                THEN <<"U", "n", "k", "n", "o", "w", "n", " ", "e", "r", "r", "o", "r">>
                ELSE error.v.message.v)

\* the lower-case message holds one of the keywords
Mentions(error, keywords) ==
    \E word \in keywords :
        \E i \in 1..Len(LoweredMessage(error)) :
            /\ i + Len(word) - 1 <= Len(LoweredMessage(error))
            /\ SubSeq(LoweredMessage(error), i, i + Len(word) - 1) = word

ConnectivityKeywords ==
    { <<"e", "c", "o", "n", "n", "r", "e", "f", "u", "s", "e", "d">>,
      <<"e", "c", "o", "n", "n", "r", "e", "s", "e", "t">>,
      <<"e", "h", "o", "s", "t", "u", "n", "r", "e", "a", "c", "h">>,
      <<"e", "n", "e", "t", "u", "n", "r", "e", "a", "c", "h">>,
      <<"g", "e", "t", "a", "d", "d", "r", "i", "n", "f", "o">>,
      <<"c", "o", "n", "n", "e", "c", "t">> }

TimeoutKeywords ==
    { <<"t", "i", "m", "e", "o", "u", "t">>,
      <<"t", "i", "m", "e", "d", " ", "o", "u", "t">>,
      <<"d", "e", "a", "d", "l", "i", "n", "e", " ", "e", "x", "c", "e", "e", "d", "e", "d">> }

\* a non-Error object carrying a string error_code
UpstreamStructured(error) ==
    /\ error.t = "object"
    /\ "error_code" \in DOMAIN error.v
    /\ error.v.error_code.t \in {"text", "string"}

\* the code of the first rule that matches a value that is not
\* upstream-structured
FirstMatchingRule(error) ==
    CASE error.t = "error" /\ Mentions(error, ConnectivityKeywords) -> "NETWORK_ERROR"
      [] error.t = "error" /\ ~Mentions(error, ConnectivityKeywords)
            /\ Mentions(error, TimeoutKeywords) -> "TIMEOUT_ERROR"
      [] error.t = "error" /\ ~Mentions(error, ConnectivityKeywords)
            /\ ~Mentions(error, TimeoutKeywords) /\ error.v.name = "TypeError" ->
            "INTERNAL_SERVER_ERROR"
      [] error.t = "error" /\ ~Mentions(error, ConnectivityKeywords)
            /\ ~Mentions(error, TimeoutKeywords) /\ error.v.name # "TypeError" ->
            "INTERNAL_ERROR"
      [] OTHER -> "UNKNOWN_ERROR"

\* C21: for a value that is not an upstream-structured failure the
\* error_code is that of the first matching rule: connectivity keyword in an
\* Error's message, then timeout keyword, then TypeError, then any other
\* Error, then a plain string (UNKNOWN_ERROR, the message being the string),
\* then anything else (UNKNOWN_ERROR).
C21_FirstMatchingRule ==
    epc = "classified" /\ ~UpstreamStructured(eError)
        => /\ eResponse.v.error_code = FirstMatchingRule(eError)
           /\ eError.t \in {"text", "string"} => eResponse.v.message.text = eError.v

\* an Error whose message holds a connectivity and a timeout keyword was
\* classified
C21_Witness ==
    /\ epc = "classified"
    /\ eError.t = "error"
    /\ Mentions(eError, ConnectivityKeywords)
    /\ Mentions(eError, TimeoutKeywords)
    /\ eResponse.v.error_code = "NETWORK_ERROR"

\* a plain string was classified
C21_WitnessString ==
    /\ epc = "classified"
    /\ eError = Text("plain string")
    /\ eResponse.v.error_code = "UNKNOWN_ERROR"
    /\ eResponse.v.message.text = "plain string"

\* null was classified
C21_WitnessNull ==
    /\ epc = "classified"
    /\ eError = Null
    /\ eResponse.v.error_code = "UNKNOWN_ERROR"

\* a TypeError without keywords was classified
C21_WitnessTypeError ==
    /\ epc = "classified"
    /\ eError.t = "error"
    /\ eError.v.name = "TypeError"
    /\ eResponse.v.error_code = "INTERNAL_SERVER_ERROR"


\* C22 as stated: for every upstream-structured failure, whatever its code
\* string, the error_code returned is the input's error_code.
C22_CodePassedThroughAsStated ==
    epc = "classified" /\ UpstreamStructured(eError)
        => eResponse.v.error_code = eError.v.error_code.v

\* C22: for every upstream-structured failure whose code is not the empty
\* string, the error_code returned is the input's error_code, whether or not
\* the code is in the suggestion or friendly-message tables; the empty code
\* is returned as UNKNOWN_SDK_ERROR.
C22_CodePassedThrough ==
    epc = "classified" /\ UpstreamStructured(eError)
        => eResponse.v.error_code =
               IF eError.v.error_code.v = "" THEN "UNKNOWN_SDK_ERROR"
               ELSE eError.v.error_code.v

\* a failure whose code is in neither table was classified
C22_Witness ==
    /\ epc = "classified"
    /\ UpstreamStructured(eError)
    /\ eError.v.error_code.v = "CUSTOM_CODE"
    /\ eResponse.v.error_code = "CUSTOM_CODE"

\* a failure whose code has a friendly message was classified
C22_WitnessFriendly ==
    /\ epc = "classified"
    /\ UpstreamStructured(eError)
    /\ eError.v.error_code.v = "TIMEOUT_ERROR"
    /\ eResponse.v.error_code = "TIMEOUT_ERROR"
    /\ eResponse.v.message.text = "Request timeout"

\* a failure with the empty code was classified
C22_WitnessEmptyCode ==
    /\ epc = "classified"
    /\ UpstreamStructured(eError)
    /\ eError.v.error_code.v = ""
    /\ eResponse.v.error_code = "UNKNOWN_SDK_ERROR"

\* C23: isRetryableError(err) is true if and only if err is an
\* upstream-structured failure whose code is one of TIMEOUT_ERROR,
\* OUT_OF_MEMORY, RESOURCE_EXHAUSTED, TRITON_CONNECTION_ERROR,
\* BILLING_TRANSACTION_FAILED, DATABASE_ERROR; it is false for every Error
\* instance, every string and null.
C23_RetryableIff ==
    epc = "classified"
        => /\ eRetryable <=>
                /\ UpstreamStructured(eError)
                /\ eError.v.error_code.v \in
                       {"TIMEOUT_ERROR", "OUT_OF_MEMORY", "RESOURCE_EXHAUSTED",
                        "TRITON_CONNECTION_ERROR", "BILLING_TRANSACTION_FAILED",
                        "DATABASE_ERROR"}
           /\ eError.t \in {"error", "text", "string", "null"} => ~eRetryable

\* an Error that transformError classifies as TIMEOUT_ERROR is not retryable
C23_Witness ==
    /\ epc = "classified"
    /\ eError.t = "error"
    /\ eResponse.v.error_code = "TIMEOUT_ERROR"
    /\ ~eRetryable

\* an upstream DATABASE_ERROR is retryable
C23_WitnessRetryable ==
    /\ epc = "classified"
    /\ UpstreamStructured(eError)
    /\ eError.v.error_code.v = "DATABASE_ERROR"
    /\ eRetryable

\* C24: no value is classified as both retryable and an authentication
\* failure.
C24_RetryableAuthDisjoint ==
    epc = "classified" => ~(eRetryable /\ eAuth)

\* an authentication failure was classified, and is not retryable
C24_Witness ==
    /\ epc = "classified"
    /\ eAuth
    /\ ~eRetryable

\* a retryable failure was classified, and is no authentication failure
C24_WitnessRetryable ==
    /\ epc = "classified"
    /\ eRetryable
    /\ ~eAuth


----------------------------------------------------------------------------
(* The shape inspector's claims *)

\* the value reached from a by taking the first element k times
RECURSIVE Descend(_, _)
Descend(a, k) == IF k = 0 THEN a ELSE Descend(a, k - 1).v[1]

\* a is an array with at least one element
IsNonEmptyArray(a) == a.t = "array" /\ Len(a.v) > 0

\* the values down the first elements of a, a included, up to the first
\* that is no array or is an empty array
RECURSIVE FirstElementDepth(_)
FirstElementDepth(a) == IF IsNonEmptyArray(a) THEN 1 + FirstElementDepth(a.v[1]) ELSE 0

\* C26 as stated: the profile holds the length of every array met going
\* down the first elements, that of an empty array included, so that it
\* ends with 0 where an empty array is met.
C26_ShapeEndsWithZeroAsStated ==
    spc = "measured"
        => LET last == Descend(sArray, FirstElementDepth(sArray))
           IN  last.t = "array" => Len(sShape) > 0 /\ sShape[Len(sShape)] = 0

\* C26: getArrayShape is total and descends only through first elements:
\* the profile holds the length of every non-empty array met going down
\* the first elements and ends before the first value that is no array or
\* is an empty array, so that every entry is positive (the shape of [] is
\* [] and the shape of [[]] is [1]).
C26_Shape ==
    spc = "measured"
        => /\ Len(sShape) = FirstElementDepth(sArray)
           /\ \A i \in 1..Len(sShape) :
                  /\ sShape[i] = Len(Descend(sArray, i - 1).v)
                  /\ sShape[i] > 0
           /\ sArray = Arr(<<>>) => sShape = <<>>
           /\ sArray = Arr(<<Arr(<<>>)>>) => sShape = <<1>>

\* an array whose first elements lead to an empty array was measured
C26_Witness ==
    /\ spc = "measured"
    /\ sArray = Arr(<<Arr(<<>>)>>)
    /\ sShape = <<1>>

\* the empty array was measured
C26_WitnessEmpty ==
    /\ spc = "measured"
    /\ sArray = Arr(<<>>)
    /\ sShape = <<>>

\* an array whose rows differ was measured by its first row alone
C26_WitnessFirstRow ==
    /\ spc = "measured"
    /\ sArray = Arr(<<Arr(<<Int1(1)>>), Arr(<<Arr(<<Int1(2)>>)>>)>>)
    /\ sShape = <<2, 1>>

\* a value that is no array was measured
C26_WitnessNull ==
    /\ spc = "measured"
    /\ sArray = Null
    /\ sShape = <<>>


----------------------------------------------------------------------------
(* The accepted horizon *)

\* h is a number with no fractional part
IsIntegerNumber(h) == h.t = "number" /\ h.v[2] # 0 /\ h.v[1] % h.v[2] = 0

\* C27: every request validateForecastRequest accepts has a horizon that
\* is a positive integer no greater than the maximum; a non-integer horizon
\* such as 1.5 is never accepted.
C27_AcceptedHorizonIsInteger ==
    vpc = "validated" /\ vResult = Null
        => LET horizon == Field(request, "horizon")
           IN  /\ IsIntegerNumber(horizon)
               /\ NumGreater(horizon, 0)
               /\ ~NumGreater(horizon, MaxHorizon)

\* the part of C27 that holds: an accepted horizon is a finite number
\* greater than 0 and no greater than the maximum
AcceptedHorizonInRange ==
    vpc = "validated" /\ vResult = Null
        => LET horizon == Field(request, "horizon")
           IN  /\ horizon.t = "number"
               /\ IsFinite(horizon)
               /\ NumGreater(horizon, 0)
               /\ ~NumGreater(horizon, MaxHorizon)


----------------------------------------------------------------------------
(* When the normalizer raises *)

\* C28: normalizeInput raises only when the top-level array is empty; for
\* every other input that passed validation, whatever its rank, the model
\* and the flag, it returns a tensor and does not raise.
C28_RaisesOnlyOnEmpty ==
    vpc = "validated" /\ npc \in {"normalized", "threw"}
        => /\ npc = "threw" <=> nInput = Arr(<<>>)
           /\ npc = "normalized" => IsFiniteTensor(nOut)

\* the part of C28 that holds for the inputs that passed validation:
\* normalizeInput does not raise
AcceptedNeverRaises ==
    vpc = "validated" /\ npc \in {"normalized", "threw"} => npc = "normalized"

\* the part of C28 that holds for every array: normalizeInput raises exactly
\* when the array is empty
RaisesIffEmpty ==
    npc \in {"normalized", "threw"} /\ nInput.t = "array"
        => (npc = "threw" <=> nInput.v = <<>>)


----------------------------------------------------------------------------
(* What validation and normalization leave alone *)

\* C25: neither validation nor normalization mutates its argument: the
\* request (an x supplied as a JSON string included) is after
\* validateForecastRequest what it was before, and the array handed to
\* normalizeInput is after the call what it was before, whatever its rank,
\* the model and the flag.
C25_ArgumentsUnchanged ==
    [][/\ Validate => request' = request
       /\ NormalizeAccepted => request' = request /\ nInput' = XData(request)]_vars

\* a request whose x is a JSON string was validated and its x normalized,
\* and the request still holds the string
C25_Witness ==
    /\ vpc = "validated"
    /\ vResult = Null
    /\ npc = "normalized"
    /\ Typeof(Field(request, "x")) = "string"
    /\ nInput = JSONParse(Field(request, "x").v)

\* a request whose x is a rank-3 array was validated and its x normalized
\* to the same array, and the request still holds it
C25_WitnessRank3 ==
    /\ vpc = "validated"
    /\ npc = "normalized"
    /\ IsRank3(Field(request, "x"))
    /\ nOut = Field(request, "x")
    /\ nInput = Field(request, "x")


----------------------------------------------------------------------------
(* The client singleton's claims *)

\* no resetClient among the calls i+1 .. k-1
NoResetBetween(i, k) == \A n \in (i + 1)..(k - 1) : cLog[n].op # "resetClient"

\* the i-th call is an initializeClient that returned
InitSucceeded(i) == cLog[i].op = "initializeClient" /\ cLog[i].outcome = Undefined

\* the i-th call is an initializeClient that threw
InitFailed(i) == cLog[i].op = "initializeClient" /\ cLog[i].outcome.t = "throw"

\* the i-th call is a getClient that returned a client
GotClient(i) == cLog[i].op = "getClient" /\ cLog[i].outcome.t = "object"

\* C29: getClient returns a client only if an initializeClient call has
\* succeeded since the last resetClient (or the start) and throws otherwise;
\* between a successful initialization and the next resetClient every
\* getClient returns the same instance and repeated initializeClient calls
\* construct no second client; isClientReady is true exactly when getClient
\* would return.
C29_Singleton ==
    /\ \A k \in 1..Len(cLog) :
          cLog[k].op = "getClient"
              => /\ cLog[k].outcome.t \in {"object", "throw"}
                 /\ GotClient(k) <=> \E i \in 1..(k - 1) : InitSucceeded(i) /\ NoResetBetween(i, k)
    /\ \A i \in 1..Len(cLog), k \in 1..Len(cLog) :
          i < k /\ NoResetBetween(i, k)
              => /\ GotClient(i) /\ GotClient(k) => cLog[i].outcome = cLog[k].outcome
                 /\ InitSucceeded(i) /\ InitSucceeded(k)
                        => /\ cLog[k].constructed = cLog[i].constructed
                           /\ cLog[k].instance = cLog[i].instance
    /\ \A k \in 1..Len(cLog) :
          cLog[k].op = "isClientReady"
              => (cLog[k].outcome = Bool(TRUE)
                      <=> getClient(cLog[k].instance, cLog[k].initError).t # "throw")
    /\ isClientReady(clientInstance, initializationError)
          <=> getClient(clientInstance, initializationError).t # "throw"

\* initializeClient succeeded, was called again with another key in the
\* environment, and getClient returned the first client both times
C29_Witness ==
    /\ Len(cLog) = 4
    /\ InitSucceeded(1)
    /\ GotClient(2)
    /\ InitSucceeded(3)
    /\ GotClient(4)
    /\ cLog[4].outcome = cLog[2].outcome
    /\ cLog[4].outcome.v.apiKey # apiKey

\* a client was constructed, the singleton reset, and a second constructed
C29_WitnessSecondAfterReset ==
    /\ Len(cLog) = 4
    /\ InitSucceeded(1)
    /\ cLog[2].op = "resetClient"
    /\ InitSucceeded(3)
    /\ GotClient(4)
    /\ cLog[4].outcome.v.serial = 2

\* getClient threw before any initialization
C29_WitnessUninitialized ==
    /\ Len(cLog) >= 1
    /\ cLog[1].op = "getClient"
    /\ cLog[1].outcome.t = "throw"

\* C30: once initializeClient has failed, until resetClient every later
\* initializeClient and every getClient throws the stored error without
\* attempting initialization again and isClientReady is false; after
\* resetClient the state is the initial state and the next initializeClient
\* attempts initialization afresh.
C30_StickyFailure ==
    /\ \A i \in 1..Len(cLog), k \in 1..Len(cLog) :
          i < k /\ InitFailed(i) /\ NoResetBetween(i, k + 1)
              => /\ cLog[k].op = "initializeClient"
                        => cLog[k].outcome = cLog[i].outcome /\ ~cLog[k].fresh
                 /\ cLog[k].op = "getClient" => cLog[k].outcome = cLog[i].outcome
                 /\ cLog[k].op = "isClientReady" => cLog[k].outcome = Bool(FALSE)
                 /\ cLog[k].initError = cLog[i].initError
                 /\ cLog[k].constructed = cLog[i].constructed
    /\ \A i \in 1..Len(cLog) :
          InitFailed(i) => cLog[i].outcome = Thrown(cLog[i].initError)
    /\ \A i \in 1..Len(cLog) :
          cLog[i].op = "resetClient"
              => /\ cLog[i].instance = Null
                 /\ cLog[i].attempted = FALSE
                 /\ cLog[i].initError = Null
                 /\ i < Len(cLog) /\ cLog[i + 1].op = "initializeClient" => cLog[i + 1].fresh

\* initialization failed for want of a key; with a key then in the
\* environment initializeClient and getClient threw the stored error again
C30_Witness ==
    /\ Len(cLog) = 3
    /\ InitFailed(1)
    /\ cLog[1].fresh
    /\ cLog[2].op = "initializeClient"
    /\ cLog[2].outcome = cLog[1].outcome
    /\ cLog[3].op = "getClient"
    /\ cLog[3].outcome = cLog[1].outcome
    /\ ~KeyMissing(apiKey)

\* initialization failed, the singleton was reset, and the next
\* initializeClient succeeded
C30_WitnessAfterReset ==
    /\ Len(cLog) = 4
    /\ InitFailed(1)
    /\ cLog[2].op = "resetClient"
    /\ InitSucceeded(3)
    /\ cLog[3].fresh
    /\ GotClient(4)

\* the construction of the client threw a value that is no Error, and the
\* stored Error was thrown again
C30_WitnessConstructionThrew ==
    /\ Len(cLog) >= 2
    /\ InitFailed(1)
    /\ cLog[1].initError.v.message = Str(<<"b", "o", "o", "m">>)
    /\ cLog[2].op = "getClient"
    /\ cLog[2].outcome = cLog[1].outcome

====
